---- MODULE Spec2Model ----
(***************************************************************************)
(* A model of the JSONPath query engine of fastjson (src/jsonpath.go):     *)
(* tokenize, parse_token, parse_bracket_token, Compile, Compiled.Lookup    *)
(* and the accessors, filter parser and comparison it calls.               *)
(*                                                                         *)
(* Go strings are modelled as sequences of one-character strings, so that  *)
(* the tokenizer and the parsers work on characters as the code does.      *)
(* A *Value is a record [t, s, a, o]: t the type tag, s the scalar text,   *)
(* a the array elements, o the object's key/value list.  The nil pointer   *)
(* is the record NilV, which is different from a JSON null (t = "null").   *)
(* A call ends in one of three ways: a value, an error value, or a Go      *)
(* run-time panic (nil dereference, index or slice out of range, failed    *)
(* type assertion); the model keeps the three apart.                       *)
(***************************************************************************)
EXTENDS Integers, Sequences, FiniteSets, TLC

VARIABLES jpath, root, pc, steps, pos, obj, out, call

vars == <<jpath, root, pc, steps, pos, obj, out, call>>

(***************************************************************************)
(* Characters and strings                                                  *)
(***************************************************************************)

\* ASCII code of the characters the model uses (Go compares runes by code).
Ord(c) ==
  CASE c = " " -> 32 [] c = "!" -> 33 [] c = "\"" -> 34 [] c = "#" -> 35
    [] c = "$" -> 36 [] c = "&" -> 38 [] c = "'" -> 39 [] c = "(" -> 40
    [] c = ")" -> 41 [] c = "*" -> 42 [] c = "+" -> 43 [] c = "," -> 44
    [] c = "-" -> 45 [] c = "." -> 46 [] c = "/" -> 47
    [] c = "0" -> 48 [] c = "1" -> 49 [] c = "2" -> 50 [] c = "3" -> 51
    [] c = "4" -> 52 [] c = "5" -> 53 [] c = "6" -> 54 [] c = "7" -> 55
    [] c = "8" -> 56 [] c = "9" -> 57
    [] c = ":" -> 58 [] c = "<" -> 60 [] c = "=" -> 61 [] c = ">" -> 62
    [] c = "?" -> 63 [] c = "@" -> 64
    [] c = "A" -> 65 [] c = "Z" -> 90
    [] c = "[" -> 91 [] c = "\\" -> 92 [] c = "]" -> 93
    [] c = "a" -> 97 [] c = "b" -> 98 [] c = "c" -> 99 [] c = "h" -> 104
    [] c = "i" -> 105 [] c = "k" -> 107 [] c = "p" -> 112 [] c = "x" -> 120
    [] c = "z" -> 122
    [] c = "|" -> 124 [] c = "~" -> 126

Digits == {"0", "1", "2", "3", "4", "5", "6", "7", "8", "9"}

DigitVal(c) == Ord(c) - 48

\* The empty Go string.
Empty == << >>

\* s[i:j] of Go for 0 <= i <= j <= len(s) (0-based, j exclusive).
Slice(s, i, j) == SubSeq(s, i + 1, j)

\* strings.HasPrefix / strings.HasSuffix
HasPrefix(s, p) == Len(s) >= Len(p) /\ SubSeq(s, 1, Len(p)) = p

HasSuffix(s, p) == Len(s) >= Len(p) /\ SubSeq(s, Len(s) - Len(p) + 1, Len(s)) = p

\* strings.Contains for a one-character needle
Contains(s, c) == \E i \in 1..Len(s) : s[i] = c

\* strings.Index for a one-character needle: 0-based position, -1 if absent
Index(s, c) ==
  IF Contains(s, c) THEN (CHOOSE i \in 1..Len(s) : s[i] = c /\ \A j \in 1..(i - 1) : s[j] # c) - 1
  ELSE -1

\* strings.Trim(s, cutset) for a one-character cutset
RECURSIVE TrimLeft(_, _)
TrimLeft(s, c) == IF Len(s) > 0 /\ s[1] = c THEN TrimLeft(Tail(s), c) ELSE s

RECURSIVE TrimRight(_, _)
TrimRight(s, c) ==
  IF Len(s) > 0 /\ s[Len(s)] = c THEN TrimRight(SubSeq(s, 1, Len(s) - 1), c) ELSE s

Trim(s, c) == TrimRight(TrimLeft(s, c), c)

\* strings.Split(s, sep) for a one-character separator: always at least one piece
RECURSIVE SplitFrom(_, _, _, _)
SplitFrom(s, c, i, cur) ==
  IF i > Len(s) THEN <<cur>>
  ELSE IF s[i] = c THEN <<cur>> \o SplitFrom(s, c, i + 1, Empty)
  ELSE SplitFrom(s, c, i + 1, Append(cur, s[i]))

Split(s, c) == SplitFrom(s, c, 1, Empty)

\* The value of a run of decimal digits.
RECURSIVE DecVal(_)
DecVal(s) == IF Len(s) = 0 THEN 0 ELSE DecVal(SubSeq(s, 1, Len(s) - 1)) * 10 + DigitVal(s[Len(s)])

AllDigits(s) == Len(s) > 0 /\ \A i \in 1..Len(s) : s[i] \in Digits

\* strconv.Atoi: an optional sign followed by decimal digits (texts within int range).
AtoiOk(s) ==
  IF Len(s) > 0 /\ s[1] \in {"+", "-"} THEN AllDigits(Tail(s)) ELSE AllDigits(s)

AtoiVal(s) ==
  IF s[1] = "-" THEN 0 - DecVal(Tail(s))
  ELSE IF s[1] = "+" THEN DecVal(Tail(s))
  ELSE DecVal(s)

(***************************************************************************)
(* Values and outcomes                                                     *)
(***************************************************************************)

\* A *Value; the four fields are always present so that values compare.
Val(t, s, a, o) == [t |-> t, s |-> s, a |-> a, o |-> o]

\* The nil *Value.
NilV == Val("nil", Empty, << >>, << >>)

Arr(a) == Val("array", Empty, a, << >>)

Obj(o) == Val("object", Empty, << >>, o)

Num(s) == Val("number", s, << >>, << >>)

Str(s) == Val("string", s, << >>, << >>)

Null == Val("null", Empty, << >>, << >>)

KV(k, v) == [k |-> k, v |-> v]

\* The three ways a call ends.
Ok(v) == [k |-> "ok", v |-> v, e |-> "none"]

Err(e) == [k |-> "err", v |-> NilV, e |-> e]

Panic(e) == [k |-> "panic", v |-> NilV, e |-> e]

None == [k |-> "none", v |-> NilV, e |-> "none"]

(***************************************************************************)
(* tokenize                                                                *)
(***************************************************************************)

\* token with a leading "." removed, as the code does before appending it.
StripDot(token) == IF Len(token) > 0 /\ token[1] = "." THEN Tail(token) ELSE token

\* The loop of tokenize from character i on, with the tokens and the
\* pending token accumulated so far.  The result is [err, tokens].
RECURSIVE TokLoop(_, _, _, _)
TokLoop(query, i, tokens, token) ==
  IF i > Len(query) THEN
    \* after the loop: flush the pending token, coalescing a "*" after a "*"
    IF Len(token) > 0 THEN
      LET t == StripDot(token) IN
        IF t # <<"*">> THEN [err |-> FALSE, tokens |-> Append(tokens, t)]
        ELSE IF tokens[Len(tokens)] # <<"*">> THEN [err |-> FALSE, tokens |-> Append(tokens, t)]
        ELSE [err |-> FALSE, tokens |-> tokens]
    ELSE [err |-> FALSE, tokens |-> tokens]
  ELSE
    LET x == query[i]
        tk == Append(token, x)
    IN
      IF i = 1 THEN
        IF tk = <<"$">> \/ tk = <<"@">> THEN TokLoop(query, i + 1, Append(tokens, tk), Empty)
        ELSE [err |-> TRUE, tokens |-> << >>]
      ELSE IF tk = <<".">> THEN TokLoop(query, i + 1, tokens, tk)
      ELSE IF tk = <<".", ".">> THEN
        TokLoop(query, i + 1,
                IF tokens[Len(tokens)] # <<"*">> THEN Append(tokens, <<"*">>) ELSE tokens,
                <<".">>)
      ELSE IF Contains(tk, "[") THEN
        IF x = "]" /\ ~HasSuffix(tk, <<"\\", "]">>) THEN
          TokLoop(query, i + 1, Append(tokens, StripDot(tk)), Empty)
        ELSE TokLoop(query, i + 1, tokens, tk)
      ELSE
        IF x = "." THEN
          TokLoop(query, i + 1,
                  Append(tokens, SubSeq(StripDot(tk), 1, Len(StripDot(tk)) - 1)),
                  <<".">>)
        ELSE TokLoop(query, i + 1, tokens, tk)

tokenize(query) == TokLoop(query, 1, << >>, Empty)

(***************************************************************************)
(* parse_token, parse_bracket_token, Compile                               *)
(***************************************************************************)

\* step.args is an interface{}: nil, []string, []int, [2]interface{} or string.
\* kind names the dynamic type; the other fields hold the payload.
NilBound == [nil |-> TRUE, n |-> 0]

IntBound(n) == [nil |-> FALSE, n |-> n]

ArgsNil == [kind |-> "nil", strs |-> << >>, ints |-> << >>, frm |-> NilBound, to |-> NilBound, str |-> Empty]

ArgsStrs(l) == [ArgsNil EXCEPT !.kind = "strs", !.strs = l]

ArgsInts(l) == [ArgsNil EXCEPT !.kind = "ints", !.ints = l]

ArgsRange(f, t) == [ArgsNil EXCEPT !.kind = "range", !.frm = f, !.to = t]

ArgsStr(x) == [ArgsNil EXCEPT !.kind = "str", !.str = x]

\* The result of parse_token: (op, key, args, err).
Parsed(op, key, args, err) == [op |-> op, key |-> key, args |-> args, err |-> err]

\* The character test of the default case of parse_bracket_token, as written
\* in the code: the third conjunct (v < 'A' && v > 'Z') can never hold.
InvalidChar(v) ==
  /\ (Ord(v) < Ord("0") \/ Ord(v) > Ord("9"))
  /\ (Ord(v) < Ord("a") \/ Ord(v) > Ord("z"))
  /\ (Ord(v) < Ord("A") /\ Ord(v) > Ord("Z"))
  /\ v # "," /\ v # "@" /\ v # "$" /\ v # "."

\* The pieces of an index list with the blank ones left out.
IdxPieces_NoBlank(token) ==
  LET NonBlank(x) == x # Empty
  IN SelectSeq([i \in 1..Len(Split(token, ",")) |-> Trim(Split(token, ",")[i], " ")], NonBlank)

\* The pieces of an index list, each trimmed of spaces.
IdxPieces(token) == [i \in 1..Len(Split(token, ",")) |-> Trim(Split(token, ",")[i], " ")]

\* parse_bracket_token: the result is [op, args, err].
parse_bracket_token(token) ==
  LET hasKey == Contains(token, "'")
      hasOp == \E i \in 1..Len(token) : token[i] \in {"=", "!", "<", ">", "~"}
      hasLogic == \E i \in 1..Len(token) : token[i] \in {"&", "|"}
      invalid == \E i \in 1..Len(token) :
                    /\ token[i] \notin {"'", "=", "!", "<", ">", "~", "&", "|"}
                    /\ InvalidChar(token[i])
      strs == Split(token, ",")
      pieces == IdxPieces(token)
  IN
    IF invalid THEN [op |-> "", args |-> ArgsStr(Empty), err |-> TRUE]
    ELSE IF hasLogic \/ hasOp THEN
      [op |-> "filter", args |-> ArgsStr(Trim(token, " ")), err |-> FALSE]
    ELSE IF hasKey THEN
      [op |-> "key",
       args |-> ArgsStrs([i \in 1..Len(strs) |-> Trim(Trim(strs[i], " "), "'")]),
       err |-> FALSE]
    ELSE IF \E i \in 1..Len(pieces) : ~AtoiOk(pieces[i]) THEN
      [op |-> "", args |-> ArgsNil, err |-> TRUE]
    ELSE
      [op |-> "idx", args |-> ArgsInts([i \in 1..Len(pieces) |-> AtoiVal(pieces[i])]), err |-> FALSE]

\* One bound of a slice: an integer text gives that integer, anything else nil.
RangeBound(txt) == IF AtoiOk(Trim(txt, " ")) THEN IntBound(AtoiVal(Trim(txt, " "))) ELSE NilBound

\* err after `frm, err = Atoi(side)` and the blank test that follows it.
ErrAfterBound(txt) == ~AtoiOk(Trim(txt, " ")) /\ Trim(txt, " ") # Empty

\* The range branch of parse_token.  err is assigned by the from side and
\* then assigned again by the to side, so the value returned is the to side's.
ParseRange(key, tail) ==
  LET tails == Split(tail, ":") IN
    IF Len(tails) # 2 THEN Parsed("range", key, ArgsNil, TRUE)
    ELSE
      LET errFrm == ErrAfterBound(tails[1])
          errTo == ErrAfterBound(tails[2])
      IN Parsed("range", key, ArgsRange(RangeBound(tails[1]), RangeBound(tails[2])), errTo)

parse_token(token) ==
  IF token = <<"$">> THEN Parsed("root", <<"$">>, ArgsNil, FALSE)
  ELSE IF token = <<"*">> THEN Parsed("scan", <<"*">>, ArgsNil, FALSE)
  ELSE
    LET bracket_idx == Index(token, "[") IN
      IF bracket_idx < 0 THEN Parsed("key", token, ArgsNil, FALSE)
      ELSE
        LET key == Slice(token, 0, bracket_idx)
            tail0 == Slice(token, bracket_idx, Len(token))
        IN
          IF Len(tail0) < 3 THEN Parsed("", key, ArgsNil, TRUE)
          ELSE
            LET tail == Slice(tail0, 1, Len(tail0) - 1) IN
              IF Contains(tail, "?") THEN
                IF HasPrefix(tail, <<"?", "(">>) /\ HasSuffix(tail, <<")">>) THEN
                  Parsed("filter", key, ArgsStr(Trim(Slice(tail, 2, Len(tail) - 1), " ")), FALSE)
                ELSE Parsed("filter", key, ArgsNil, FALSE)
              ELSE IF Contains(tail, ":") THEN ParseRange(key, tail)
              ELSE IF tail = <<"*">> THEN Parsed("range", key, ArgsRange(NilBound, NilBound), FALSE)
              ELSE
                LET b == parse_bracket_token(tail) IN Parsed(b.op, key, b.args, b.err)

\* A compiled step.
Step(p) == [op |-> p.op, key |-> p.key, args |-> p.args]

\* Compile: [k, steps] with k "ok", "err" or "panic".  tokens[0] is read
\* without a length test, so an empty token list is an index-out-of-range panic.
Compile(path) ==
  LET tk == tokenize(path) IN
    IF tk.err THEN [k |-> "err", steps |-> << >>]
    ELSE IF Len(tk.tokens) = 0 THEN [k |-> "panic", steps |-> << >>]
    ELSE IF tk.tokens[1] # <<"@">> /\ tk.tokens[1] # <<"$">> THEN [k |-> "err", steps |-> << >>]
    ELSE
      LET tokens == Tail(tk.tokens)
          parsed == [i \in 1..Len(tokens) |-> parse_token(tokens[i])]
      IN
        IF \E i \in 1..Len(tokens) : parsed[i].err THEN [k |-> "err", steps |-> << >>]
        ELSE [k |-> "ok", steps |-> [i \in 1..Len(tokens) |-> Step(parsed[i])]]

(***************************************************************************)
(* Value accessors                                                         *)
(***************************************************************************)

\* Value.Get(key): the field of an object, nil when the receiver is nil, is
\* not an object, or has no such field.
RECURSIVE ObjFind(_, _, _)
ObjFind(o, key, i) ==
  IF i > Len(o) THEN NilV
  ELSE IF o[i].k = key THEN o[i].v
  ELSE ObjFind(o, key, i + 1)

ValueGet(v, key) == IF v.t = "object" THEN ObjFind(v.o, key, 1) ELSE NilV

\* Value.Exists(key)
ValueExists(v, key) == ValueGet(v, key) # NilV

\* get_key without the test that the key exists in the object
get_key_NoExists(o, key) ==
  IF o = NilV THEN Err("null")
  ELSE IF Len(key) = 0 THEN Ok(o)
  ELSE IF o.t = "object" THEN Ok(ValueGet(o, key))
  ELSE IF o.t = "array" THEN Ok(Arr([i \in 1..Len(o.a) |-> ValueGet(o.a[i], key)]))
  ELSE Err("notmap")

\* get_key whose broadcast keeps only the elements that have the key
get_key_SkipMissing(o, key) ==
  IF o = NilV THEN Err("null")
  ELSE IF Len(key) = 0 THEN Ok(o)
  ELSE IF o.t = "object" THEN
    IF ~ValueExists(o, key) THEN Err("key") ELSE Ok(ValueGet(o, key))
  ELSE IF o.t = "array" THEN
    LET Present(x) == x # NilV IN
      Ok(Arr(SelectSeq([i \in 1..Len(o.a) |-> ValueGet(o.a[i], key)], Present)))
  ELSE Err("notmap")

\* get_key
get_key(o, key) ==
  IF o = NilV THEN Err("null")
  ELSE IF Len(key) = 0 THEN Ok(o)
  ELSE IF o.t = "object" THEN
    IF ~ValueExists(o, key) THEN Err("key") ELSE Ok(ValueGet(o, key))
  ELSE IF o.t = "array" THEN Ok(Arr([i \in 1..Len(o.a) |-> ValueGet(o.a[i], key)]))
  ELSE Err("notmap")

\* get_idx that takes the negative index -length for out of range
get_idx_NegOff(o, idx) ==
  IF o = NilV THEN Panic("nilderef")
  ELSE IF o.t = "array" THEN
    LET length == Len(o.a) IN
      IF idx >= 0 THEN
        IF idx >= length THEN Err("range") ELSE Ok(o.a[idx + 1])
      ELSE
        LET _idx == length + idx IN
          IF _idx <= 0 THEN Err("range") ELSE Ok(o.a[_idx + 1])
  ELSE Err("notslice")

\* get_idx: obj.t is read first, a nil obj is a nil-pointer dereference.
get_idx(o, idx) ==
  IF o = NilV THEN Panic("nilderef")
  ELSE IF o.t = "array" THEN
    LET length == Len(o.a) IN
      IF idx >= 0 THEN
        IF idx >= length THEN Err("range") ELSE Ok(o.a[idx + 1])
      ELSE
        LET _idx == length + idx IN
          IF _idx < 0 THEN Err("range") ELSE Ok(o.a[_idx + 1])
  ELSE Err("notslice")

\* The normalized bounds of get_range for an array of the given length.
NormFrm(frm, length) ==
  LET fv == IF frm.nil THEN 0 ELSE frm.n IN
    IF fv < 0 THEN length + fv ELSE fv

NormTo(to, length) ==
  LET tv == IF to.nil THEN length - 1 ELSE to.n IN
    IF tv < 0 THEN length + tv + 1 ELSE tv + 1

\* get_range: the slice expression obj.a[_frm:_to] panics when _frm > _to.
get_range(o, frm, to) ==
  IF o = NilV THEN Panic("nilderef")
  ELSE IF o.t = "array" THEN
    LET length == Len(o.a)
        _frm == NormFrm(frm, length)
        _to == NormTo(to, length)
    IN
      IF _frm < 0 \/ _frm >= length THEN Err("range")
      ELSE IF _to < 0 \/ _to > length THEN Err("range")
      ELSE IF _frm > _to THEN Panic("slicebounds")
      ELSE Ok(Arr(Slice(o.a, _frm, _to)))
  ELSE Err("notslice")

(***************************************************************************)
(* parse_filter                                                            *)
(***************************************************************************)

OpExists == <<"e", "x", "i", "s", "t", "s">>

OpMatch == <<"=", "~">>

\* The assignment `switch stage { case 0: lp = tmp; case 1: op = tmp; case 2: rp = tmp }`.
AssignStage(st) ==
  IF st.stage = 0 THEN [st EXCEPT !.lp = st.tmp]
  ELSE IF st.stage = 1 THEN [st EXCEPT !.op = st.tmp]
  ELSE IF st.stage = 2 THEN [st EXCEPT !.rp = st.tmp]
  ELSE st

\* The character loop of parse_filter.  str_embrace is set by the first quote
\* and never cleared; later quotes store tmp into the field of the stage.
RECURSIVE FilterLoop(_, _, _)
FilterLoop(filter, i, st) ==
  IF i > Len(filter) THEN
    IF st.tmp # Empty THEN
      IF st.stage = 0 THEN [st EXCEPT !.lp = st.tmp, !.op = OpExists, !.tmp = Empty]
      ELSE [AssignStage(st) EXCEPT !.tmp = Empty]
    ELSE st
  ELSE
    LET c == filter[i] IN
      IF c = "'" THEN
        IF ~st.str_embrace THEN FilterLoop(filter, i + 1, [st EXCEPT !.str_embrace = TRUE])
        ELSE FilterLoop(filter, i + 1, [AssignStage(st) EXCEPT !.tmp = Empty])
      ELSE IF c = " " THEN
        IF st.str_embrace THEN FilterLoop(filter, i + 1, [st EXCEPT !.tmp = Append(st.tmp, c)])
        ELSE
          LET st2 == [AssignStage(st) EXCEPT !.tmp = Empty, !.stage = st.stage + 1] IN
            IF st2.stage > 2 THEN [st2 EXCEPT !.lp = Empty, !.op = Empty, !.rp = Empty, !.err = TRUE]
            ELSE FilterLoop(filter, i + 1, st2)
      ELSE FilterLoop(filter, i + 1, [st EXCEPT !.tmp = Append(st.tmp, c)])

\* parse_filter: the fields lp, op, rp and err of the result are the triple.
parse_filter(filter) ==
  FilterLoop(filter, 1,
             [tmp |-> Empty, stage |-> 0, str_embrace |-> FALSE,
              lp |-> Empty, op |-> Empty, rp |-> Empty, err |-> FALSE])

(***************************************************************************)
(* Operand resolution                                                      *)
(***************************************************************************)

\* The step loop of filter_get_from_explicit_path.  The error of parse_token
\* is not looked at: only the op it returns selects the case.  The helper
\* operators take the result of the call made just before as a parameter.
RECURSIVE ExplicitLoop(_, _, _)

\* ... after `xobj, err = get_idx(xobj, args.([]int)[0])`
ExplicitAfterIdx(q, toks, i) == IF q.k # "ok" THEN q ELSE ExplicitLoop(q.v, toks, i + 1)

\* ... after `xobj, err = get_key(xobj, key)` of case "idx"
ExplicitIdx(r, p, toks, i) ==
  IF r.k # "ok" THEN r ELSE ExplicitAfterIdx(get_idx(r.v, p.args.ints[1]), toks, i)

\* ... after `xobj, err = get_key(xobj, key)` of case "key"
ExplicitAfterKey(r, toks, i) == IF r.k # "ok" THEN r ELSE ExplicitLoop(r.v, toks, i + 1)

\* ... the switch on the op of the parsed token p
ExplicitStep(xobj, p, toks, i) ==
  IF p.op = "key" THEN ExplicitAfterKey(get_key(xobj, p.key), toks, i)
  ELSE IF p.op = "idx" THEN
    IF Len(p.args.ints) # 1 THEN Err("multiidx")
    ELSE ExplicitIdx(get_key(xobj, p.key), p, toks, i)
  ELSE Err("unsupported")

ExplicitLoop(xobj, toks, i) ==
  IF i > Len(toks) THEN Ok(xobj) ELSE ExplicitStep(xobj, parse_token(toks[i]), toks, i)

\* ... after `steps, err := tokenize(path)`
ExplicitFrom(o, tk) ==
  IF tk.err THEN Err("tokenize")
  ELSE IF Len(tk.tokens) = 0 THEN Panic("indexrange")
  ELSE IF tk.tokens[1] # <<"@">> /\ tk.tokens[1] # <<"$">> THEN Err("front")
  ELSE ExplicitLoop(o, Tail(tk.tokens), 1)

filter_get_from_explicit_path(o, path) == ExplicitFrom(o, tokenize(path))

\* An operand: an "@." path against the candidate, a "$." path against the
\* root, any other text a string literal.
Operand(o, rt, txt) ==
  IF HasPrefix(txt, <<"@", ".">>) THEN filter_get_from_explicit_path(o, txt)
  ELSE IF HasPrefix(txt, <<"$", ".">>) THEN filter_get_from_explicit_path(rt, txt)
  ELSE Ok(Str(txt))

get_lp_v(o, rt, lp) == Operand(o, rt, lp)

(***************************************************************************)
(* Numbers and comparison                                                  *)
(***************************************************************************)

\* The largest number of fraction digits of a number text in the model.
MaxFrac == 2

RECURSIVE Pow10(_)
Pow10(n) == IF n <= 0 THEN 1 ELSE 10 * Pow10(n - 1)

\* A number text without its sign, and the parts around its decimal point.
Unsigned(s) == IF Len(s) > 0 /\ s[1] \in {"+", "-"} THEN Tail(s) ELSE s

IntPart(b) == IF Contains(b, ".") THEN Slice(b, 0, Index(b, ".")) ELSE b

FracPart(b) == IF Contains(b, ".") THEN Slice(b, Index(b, ".") + 1, Len(b)) ELSE Empty

\* The decimal forms sign? digits [. digits] and sign? . digits: the texts
\* the model compares have no exponent, hexadecimal or inf/nan form.
DecimalForm(s) ==
  LET b == Unsigned(s) IN
    /\ Len(IntPart(b)) + Len(FracPart(b)) > 0
    /\ \A i \in 1..Len(IntPart(b)) : IntPart(b)[i] \in Digits
    /\ \A i \in 1..Len(FracPart(b)) : FracPart(b)[i] \in Digits

\* The value of a decimal form, scaled by 10^MaxFrac so that it is an integer.
DecimalVal(s) ==
  LET b == Unsigned(s)
      m == DecVal(IntPart(b)) * Pow10(MaxFrac) + DecVal(FracPart(b)) * Pow10(MaxFrac - Len(FracPart(b)))
  IN IF s[1] = "-" THEN 0 - m ELSE m

\* strconv.ParseFloat(s, 64) succeeds
ParseFloatOk(s) == DecimalForm(s)

\* isNumber; Type() reads the receiver's tag.
isNumber(o) ==
  IF o.t = "number" THEN TRUE
  ELSE IF o.t = "string" THEN ParseFloatOk(o.s)
  ELSE FALSE

\* The value of a run of octal digits.
RECURSIVE OctVal(_)
OctVal(s) == IF Len(s) = 0 THEN 0 ELSE OctVal(SubSeq(s, 1, Len(s) - 1)) * 8 + DigitVal(s[Len(s)])

\* A number text read as a Go constant, as types.Eval reads the formatted
\* expression: an integer literal with a leading 0 is octal, and is invalid
\* when it has a digit 8 or 9.  The result is [ok, val], val scaled as above.
GoConst(s) ==
  LET b == Unsigned(s)
      legacyOctal == ~Contains(b, ".") /\ Len(b) > 1 /\ b[1] = "0"
  IN
    IF ~DecimalForm(s) THEN [ok |-> FALSE, val |-> 0]
    ELSE IF legacyOctal THEN
      IF \E i \in 1..Len(b) : b[i] \in {"8", "9"} THEN [ok |-> FALSE, val |-> 0]
      ELSE [ok |-> TRUE, val |-> (IF s[1] = "-" THEN 0 - OctVal(b) ELSE OctVal(b)) * Pow10(MaxFrac)]
    ELSE [ok |-> TRUE, val |-> DecimalVal(s)]

\* Go's string order: byte-wise lexicographic.
RECURSIVE LexCmp(_, _)
LexCmp(a, b) ==
  IF Len(a) = 0 /\ Len(b) = 0 THEN 0
  ELSE IF Len(a) = 0 THEN -1
  ELSE IF Len(b) = 0 THEN 1
  ELSE IF Ord(a[1]) < Ord(b[1]) THEN -1
  ELSE IF Ord(a[1]) > Ord(b[1]) THEN 1
  ELSE LexCmp(Tail(a), Tail(b))

IntCmp(x, y) == IF x < y THEN -1 ELSE IF x > y THEN 1 ELSE 0

CmpOps == {<<"<">>, <<"<", "=">>, <<"=", "=">>, <<"!", "=">>, <<">", "=">>, <<">">>}

\* The truth of `x op y` from the sign c of the comparison of x with y.
OpHolds(op, c) ==
  IF op = <<"<">> THEN c < 0
  ELSE IF op = <<"<", "=">> THEN c <= 0
  ELSE IF op = <<"=", "=">> THEN c = 0
  ELSE IF op = <<"!", "=">> THEN c # 0
  ELSE IF op = <<">", "=">> THEN c >= 0
  ELSE c > 0

\* The result of a predicate: [k, b] with k "ok", "err" or "panic".
BOk(b) == [k |-> "ok", b |-> b]

BErr == [k |-> "err", b |-> FALSE]

BPanic == [k |-> "panic", b |-> FALSE]

\* cmp_any: the operands are formatted into a Go expression, bare when both
\* are numbers and quoted otherwise, and types.Eval evaluates it.  A nil
\* operand is dereferenced (Type(), .s).  The quoted texts of the model have
\* no quote or backslash character.
cmp_any(obj1, obj2, op) ==
  IF op \notin CmpOps THEN BErr
  ELSE IF obj1 = NilV \/ obj2 = NilV THEN BPanic
  ELSE IF isNumber(obj1) /\ isNumber(obj2) THEN
    LET c1 == GoConst(obj1.s)
        c2 == GoConst(obj2.s)
    IN IF ~c1.ok \/ ~c2.ok THEN BErr ELSE BOk(OpHolds(op, IntCmp(c1.val, c2.val)))
  ELSE BOk(OpHolds(op, LexCmp(obj1.s, obj2.s)))

(***************************************************************************)
(* Regular expressions                                                     *)
(***************************************************************************)

\* The patterns of the model are made of literal characters, "." (any
\* character) and a "*" after either; regexp.Compile rejects a "*" that has
\* nothing to repeat or that follows another "*".
RegexpCompileOk(p) ==
  \A i \in 1..Len(p) : p[i] = "*" => (i > 1 /\ p[i - 1] # "*")

\* The pattern from position i matches a prefix of the text from position j.
RECURSIVE MatchHere(_, _, _, _)
MatchHere(p, i, txt, j) ==
  IF i > Len(p) THEN TRUE
  ELSE IF i < Len(p) /\ p[i + 1] = "*" THEN
    \/ MatchHere(p, i + 2, txt, j)
    \/ /\ j <= Len(txt)
       /\ (p[i] = "." \/ p[i] = txt[j])
       /\ MatchHere(p, i, txt, j + 1)
  ELSE
    /\ j <= Len(txt)
    /\ (p[i] = "." \/ p[i] = txt[j])
    /\ MatchHere(p, i + 1, txt, j + 1)

\* Regexp.MatchString: the pattern matches somewhere in the text.
MatchString(p, txt) == \E j \in 1..(Len(txt) + 1) : MatchHere(p, 1, txt, j)

\* regFilterCompile: [ok, pat]; the rule must be longer than two characters
\* and both start and end with "/".
regFilterCompile(rule) ==
  IF Len(rule) <= 2 THEN [ok |-> FALSE, pat |-> Empty]
  ELSE IF rule[1] # "/" \/ rule[Len(rule)] # "/" THEN [ok |-> FALSE, pat |-> Empty]
  ELSE
    LET inner == SubSeq(rule, 2, Len(rule) - 1) IN
      IF RegexpCompileOk(inner) THEN [ok |-> TRUE, pat |-> inner] ELSE [ok |-> FALSE, pat |-> Empty]

(***************************************************************************)
(* Filters                                                                 *)
(***************************************************************************)

\* eval_reg_filter, for a pattern that compiled; l is the result of get_lp_v
RegFilterOn(l, pat) ==
  IF l.k = "panic" THEN BPanic
  ELSE IF l.k = "err" THEN BErr
  ELSE IF l.v = NilV THEN BPanic
  ELSE IF l.v.t = "string" THEN BOk(MatchString(pat, l.v.s))
  ELSE BErr

eval_reg_filter(o, rt, lp, pat) == RegFilterOn(get_lp_v(o, rt, lp), pat)

\* The operand that eval_filter goes on with: the error of its resolution is
\* not looked at, the operand is then the nil value that came with the error.
OperandValue(l) == IF l.k = "ok" THEN l.v ELSE NilV

\* ... the comparison, l and r the results of resolving the two operands
EvalCompare(l, r, op) ==
  IF r.k = "panic" THEN BPanic ELSE cmp_any(OperandValue(l), OperandValue(r), op)

\* ... whose `exists` looks at the error of the resolution only
EvalFilterOn_ErrOnly(l, o, rt, op, rp) ==
  IF l.k = "panic" THEN BPanic
  ELSE IF op = OpExists THEN BOk(l.k = "ok")
  ELSE IF op = OpMatch THEN BErr
  ELSE EvalCompare(l, Operand(o, rt, rp), op)

\* ... after `lp_v, err := get_lp_v(obj, root, lp)`
EvalFilterOn(l, o, rt, op, rp) ==
  IF l.k = "panic" THEN BPanic
  ELSE IF op = OpExists THEN BOk(OperandValue(l) # NilV)
  ELSE IF op = OpMatch THEN BErr
  ELSE EvalCompare(l, Operand(o, rt, rp), op)

eval_filter(o, rt, lp, op, rp) == EvalFilterOn(get_lp_v(o, rt, lp), o, rt, op, rp)

\* The predicate of get_filtered on one candidate, for a parsed triple f.
EvalOne(tmp, rt, f) ==
  IF f.op = OpMatch THEN eval_reg_filter(tmp, rt, f.lp, regFilterCompile(f.rp).pat)
  ELSE eval_filter(tmp, rt, f.lp, f.op, f.rp)

\* The result of get_filtered: (isArr, ret, err), or a panic.
Filtered(k, isArr, ret) == [k |-> k, isArr |-> isArr, ret |-> ret]

\* The loop of get_filtered over the elements of an array: the first error
\* ends it, the elements that satisfy the predicate are appended in order.
RECURSIVE FilterElems(_, _, _, _, _)

\* ... that puts a satisfying element in front of those found before it
FilterElem_Prepend(e, a, i, rt, f, res) ==
  IF e.k # "ok" THEN Filtered(e.k, TRUE, << >>)
  ELSE FilterElems(a, i + 1, rt, f, IF e.b THEN <<a[i]>> \o res ELSE res)

\* ... after the predicate returned e for element i
FilterElem(e, a, i, rt, f, res) ==
  IF e.k # "ok" THEN Filtered(e.k, TRUE, << >>)
  ELSE FilterElems(a, i + 1, rt, f, IF e.b THEN Append(res, a[i]) ELSE res)

FilterElems(a, i, rt, f, res) ==
  IF i > Len(a) THEN Filtered("ok", TRUE, res)
  ELSE FilterElem(EvalOne(a[i], rt, f), a, i, rt, f, res)

\* ... the object case, e the result of the predicate on the object
FilterObject(e, o) ==
  IF e.k # "ok" THEN Filtered(e.k, FALSE, << >>)
  ELSE Filtered("ok", FALSE, IF e.b THEN <<o>> ELSE << >>)

\* ... after `lp, op, rp, err := parse_filter(filter)`, for a non-nil obj
FilteredBy(f, o, rt) ==
  IF f.err THEN Filtered("err", TRUE, << >>)
  ELSE IF o.t = "array" THEN
    IF f.op = OpMatch /\ ~regFilterCompile(f.rp).ok THEN Filtered("err", TRUE, << >>)
    ELSE FilterElems(o.a, 1, rt, f, << >>)
  ELSE IF o.t = "object" THEN
    IF f.op = OpMatch /\ ~regFilterCompile(f.rp).ok THEN Filtered("err", FALSE, << >>)
    ELSE FilterObject(EvalOne(o, rt, f), o)
  ELSE Filtered("err", TRUE, << >>)

get_filtered(o, rt, filter) == FilteredBy(parse_filter(filter), o, rt)

(***************************************************************************)
(* Compiled.Lookup, one step at a time                                     *)
(***************************************************************************)

\* The loops `for _, x := range args { tmp, err := get_key(obj, x) ... }` and
\* the same with get_idx: the first failure is returned, the results are
\* collected in request order.
RECURSIVE KeyEach(_, _, _, _)

KeyEachOn(r, o, names, i, res) ==
  IF r.k # "ok" THEN r ELSE KeyEach(o, names, i + 1, Append(res, r.v))

KeyEach(o, names, i, res) ==
  IF i > Len(names) THEN Ok(Arr(res)) ELSE KeyEachOn(get_key(o, names[i]), o, names, i, res)

RECURSIVE IdxEach(_, _, _, _)

IdxEachOn(r, o, ints, i, res) ==
  IF r.k # "ok" THEN r ELSE IdxEach(o, ints, i + 1, Append(res, r.v))

IdxEach(o, ints, i, res) ==
  IF i > Len(ints) THEN Ok(Arr(res)) ELSE IdxEachOn(get_idx(o, ints[i]), o, ints, i, res)

\* The leading `if len(s.key) > 0 { obj, err = get_key(obj, s.key) }`.
KeyPrefix(s, o) == IF Len(s.key) > 0 THEN get_key(o, s.key) ELSE Ok(o)

\* case "key", r the result of the leading get_key
LookupKeyOn(r, s) ==
  IF r.k # "ok" THEN r
  ELSE IF s.args.kind = "nil" THEN r
  ELSE IF s.args.kind # "strs" THEN Panic("typeassert")
  ELSE IF Len(s.args.strs) > 1 THEN KeyEach(r.v, s.args.strs, 1, << >>)
  ELSE IF Len(s.args.strs) = 1 THEN get_key(r.v, s.args.strs[1])
  ELSE Err("emptykeys")

LookupKey(s, o) == LookupKeyOn(KeyPrefix(s, o), s)

\* case "idx", r the result of the leading get_key
LookupIdxOn(r, s) ==
  IF r.k # "ok" THEN r
  ELSE IF s.args.kind # "ints" THEN Panic("typeassert")
  ELSE IF Len(s.args.ints) > 1 THEN IdxEach(r.v, s.args.ints, 1, << >>)
  ELSE IF Len(s.args.ints) = 1 THEN get_idx(r.v, s.args.ints[1])
  ELSE Err("emptyidx")

LookupIdx(s, o) == LookupIdxOn(KeyPrefix(s, o), s)

\* case "range", r the result of the leading get_key
LookupRangeOn(r, s) ==
  IF r.k # "ok" THEN r
  ELSE IF s.args.kind = "range" THEN get_range(r.v, s.args.frm, s.args.to)
  ELSE Err("rangeargs")

LookupRange(s, o) == LookupRangeOn(KeyPrefix(s, o), s)

\* ... that goes on with the nil value when a single value does not match
LookupFiltered_NoSentinel(f) ==
  IF f.k = "err" THEN Err("filter")
  ELSE IF f.k = "panic" THEN Panic("nilderef")
  ELSE IF f.isArr THEN Ok(Arr(f.ret))
  ELSE IF Len(f.ret) = 0 THEN Ok(NilV)
  ELSE Ok(f.ret[1])

\* case "filter", f the result of get_filtered: k = "ret" stands for the
\* `return nil, nil` of a single value that does not match.
LookupFiltered(f) ==
  IF f.k = "err" THEN Err("filter")
  ELSE IF f.k = "panic" THEN Panic("nilderef")
  ELSE IF f.isArr THEN Ok(Arr(f.ret))
  ELSE IF Len(f.ret) = 0 THEN [k |-> "ret", v |-> NilV, e |-> "none"]
  ELSE Ok(f.ret[1])

\* case "filter", r the result of get_key(obj, s.key); s.args.(string) is a
\* type assertion that fails on the nil args of a filter without "?( )".
LookupFilterOn(r, s, rt) ==
  IF r.k # "ok" THEN r
  ELSE IF s.args.kind # "str" THEN Panic("typeassert")
  ELSE LookupFiltered(get_filtered(r.v, rt, s.args.str))

LookupFilter(s, o, rt) == LookupFilterOn(get_key(o, s.key), s, rt)

\* The body of the loop of Lookup for one step.
LookupStep(s, o, rt) ==
  IF s.op = "key" THEN LookupKey(s, o)
  ELSE IF s.op = "idx" THEN LookupIdx(s, o)
  ELSE IF s.op = "range" THEN LookupRange(s, o)
  ELSE IF s.op = "filter" THEN LookupFilter(s, o, rt)
  ELSE Err("unsupported")

\* The whole of Lookup, as a function of the steps and the root.
RECURSIVE LookupFrom(_, _, _, _)

LookupAfter(r, st, i, rt) ==
  IF r.k = "ok" THEN LookupFrom(st, i + 1, r.v, rt)
  ELSE IF r.k = "ret" THEN Ok(NilV)
  ELSE r

LookupFrom(st, i, o, rt) ==
  IF i > Len(st) THEN Ok(o) ELSE LookupAfter(LookupStep(st[i], o, rt), st, i, rt)

Lookup(st, rt) == LookupFrom(st, 1, rt, rt)

\* JsonPathLookup: Compile, then Lookup.
LookupCompiled(c, rt) ==
  IF c.k = "err" THEN Err("compile")
  ELSE IF c.k = "panic" THEN Panic("indexrange")
  ELSE Lookup(c.steps, rt)

JsonPathLookup(rt, path) == LookupCompiled(Compile(path), rt)

(***************************************************************************)
(* The state machine: one call of JsonPathLookup(root, jpath)              *)
(***************************************************************************)

NoCall == [fn |-> "none"]

\* Compile(jpath), c its result
Compiled(c) ==
  IF c.k = "ok" THEN
    /\ steps' = c.steps
    /\ pos' = 1
    /\ obj' = root
    /\ pc' = "run"
    /\ out' = out
  ELSE
    /\ out' = (IF c.k = "err" THEN Err("compile") ELSE Panic("indexrange"))
    /\ pc' = "done"
    /\ UNCHANGED <<steps, pos, obj>>

DoCompile ==
  /\ pc = "start"
  /\ Compiled(Compile(jpath))
  /\ UNCHANGED <<jpath, root, call>>

\* The end of one iteration of the loop of Lookup, r the step's result
Stepped(r) ==
  IF r.k = "ok" THEN
    /\ obj' = r.v
    /\ pos' = pos + 1
    /\ UNCHANGED <<pc, out>>
  ELSE
    /\ out' = (IF r.k = "ret" THEN Ok(NilV) ELSE r)
    /\ pc' = "done"
    /\ UNCHANGED <<obj, pos>>

\* The loop of Lookup is at a step whose op is in ops.
AtStep(ops) ==
  /\ pc = "run"
  /\ pos <= Len(steps)
  /\ steps[pos].op \in ops

\* One iteration of the loop of Lookup, by the case of its switch.
StepKey ==
  /\ AtStep({"key"})
  /\ Stepped(LookupKey(steps[pos], obj))
  /\ UNCHANGED <<jpath, root, steps, call>>

StepIdx ==
  /\ AtStep({"idx"})
  /\ Stepped(LookupIdx(steps[pos], obj))
  /\ UNCHANGED <<jpath, root, steps, call>>

StepRange ==
  /\ AtStep({"range"})
  /\ Stepped(LookupRange(steps[pos], obj))
  /\ UNCHANGED <<jpath, root, steps, call>>

StepFilter ==
  /\ AtStep({"filter"})
  /\ Stepped(LookupFilter(steps[pos], obj, root))
  /\ UNCHANGED <<jpath, root, steps, call>>

\* default: the ops "root" and "scan" have no case
StepOther ==
  /\ AtStep({"root", "scan"})
  /\ Stepped(Err("unsupported"))
  /\ UNCHANGED <<jpath, root, steps, call>>

\* `return obj, nil` after the last step
Return ==
  /\ pc = "run"
  /\ pos > Len(steps)
  /\ out' = Ok(obj)
  /\ pc' = "done"
  /\ UNCHANGED <<jpath, root, steps, pos, obj, call>>

(***************************************************************************)
(* Inputs                                                                  *)
(***************************************************************************)

\* The largest number of segments after the "$" of a path.
MaxSegs == 2

\* Path segments: key steps, index and slice brackets, filters with and
\* without the "?( )" wrapper, a key list, a recursive descent, and brackets
\* that are not closed or are empty.
Segs ==
  { <<".", "a">>,
    <<".", "b">>,
    <<"[", "0", "]">>,
    <<"[", "-", "1", "]">>,
    <<"[", "*", "]">>,
    <<"[", "1", ":", "-", "3", "]">>,
    <<"[", "?", "(", "@", ".", "a", ")", "]">>,
    <<"[", "?", "(", "@", ".", "a", " ", ">", " ", "1", ")", "]">>,
    <<"[", "?", "(", "@", ".", "b", " ", "=", "~", " ", "/", "x", "/", ")", "]">>,
    <<"[", "?", "]">>,
    <<"[", "'", "a", "'", ",", "'", "b", "'", "]">>,
    <<".", ".", "a">>,
    <<"[">>,
    <<"[", "]">> }

\* Path texts that are not a "$" followed by segments.
OddPaths == { Empty, <<"a">>, <<"$", ".">>, <<"$", ".", "a", "[", "1", "2">>, <<"@", ".", "a">> }

RECURSIVE Concat(_)
Concat(ss) == IF Len(ss) = 0 THEN Empty ELSE Head(ss) \o Concat(Tail(ss))

SegSeqs(n) == UNION {[1..m -> Segs] : m \in 0..n}

Paths == {<<"$">> \o Concat(ss) : ss \in SegSeqs(MaxSegs)} \cup OddPaths

KeyA == <<"a">>

KeyB == <<"b">>

N1 == Num(<<"1">>)

N2 == Num(<<"2">>)

SX == Str(<<"x">>)

\* Value trees: objects with nested objects, scalars and nulls, arrays of
\* objects that have or lack a key, nested arrays, the empty array, scalars.
Roots ==
  { Obj(<<KV(KeyA, Obj(<<KV(KeyB, N1)>>)), KV(KeyB, Null)>>),
    Arr(<<Obj(<<KV(KeyA, N1)>>), Obj(<<KV(KeyB, SX)>>)>>),
    Obj(<<KV(KeyA, Arr(<<Obj(<<KV(KeyA, N2)>>), Obj(<<KV(KeyA, N1), KV(KeyB, SX)>>)>>))>>),
    Arr(<<Arr(<<Obj(<<KV(KeyA, N1)>>)>>), Arr(<<Obj(<<KV(KeyA, N2)>>)>>)>>),
    Arr(<< >>),
    N1,
    Null }

Init ==
  /\ jpath \in Paths
  /\ root \in Roots
  /\ pc = "start"
  /\ steps = << >>
  /\ pos = 0
  /\ obj = NilV
  /\ out = None
  /\ call = NoCall

Next == DoCompile \/ StepKey \/ StepIdx \/ StepRange \/ StepFilter \/ StepOther \/ Return

Spec == Init /\ [][Next]_vars

(***************************************************************************)
(* C1                                                                      *)
(***************************************************************************)

\* C1: for every path string and every value tree, JsonPathLookup (Compile
\* followed by Lookup) ends by returning a value or an error value; it never
\* ends in a panic.
C1_NoAbort == pc = "done" => out.k \in {"ok", "err"}

(***************************************************************************)
(* C2, C7: paths of plain keys                                             *)
(***************************************************************************)

\* The largest number of keys of a path `$.k1.k2...kn`.
MaxKeys == 3

KeyNames == {KeyA, KeyB}

KeyLists == UNION {[1..n -> KeyNames] : n \in 0..MaxKeys}

\* The text `$.k1.k2...kn`.
RECURSIVE DotKeys(_)
DotKeys(ks) == IF Len(ks) = 0 THEN Empty ELSE (<<".">> \o Head(ks)) \o DotKeys(Tail(ks))

KeyPath(ks) == <<"$">> \o DotKeys(ks)

\* Trees of nested objects with scalar and null leaves, and scalar roots.
ObjRoots ==
  { Obj(<<KV(KeyA, Obj(<<KV(KeyA, Obj(<<KV(KeyB, N1)>>)), KV(KeyB, SX)>>)), KV(KeyB, N1)>>),
    Obj(<<KV(KeyA, Null), KV(KeyB, Obj(<<KV(KeyA, N2)>>))>>),
    Obj(<<KV(KeyB, Obj(<<KV(KeyB, Obj(<<KV(KeyB, Null)>>))>>))>>),
    Obj(<< >>),
    N1,
    SX,
    Null }

\* Arrays whose elements are all objects, at the root and under a key; the
\* elements have the key, lack it, or have it with a null value.
ArrRoots ==
  { Arr(<<Obj(<<KV(KeyA, N1)>>), Obj(<<KV(KeyB, SX)>>)>>),
    Arr(<<Obj(<<KV(KeyA, Null)>>), Obj(<<KV(KeyA, N2), KV(KeyB, N1)>>), Obj(<< >>)>>),
    Arr(<<Obj(<<KV(KeyA, Obj(<<KV(KeyB, N1)>>))>>)>>),
    Arr(<< >>),
    Obj(<<KV(KeyA, Arr(<<Obj(<<KV(KeyB, N2)>>), Obj(<<KV(KeyA, N1)>>)>>))>>) }

InitKey ==
  /\ call \in {[fn |-> "keys", keys |-> ks] : ks \in KeyLists}
  /\ jpath = KeyPath(call.keys)
  /\ root \in ObjRoots \cup ArrRoots
  /\ pc = "start"
  /\ steps = << >>
  /\ pos = 0
  /\ obj = NilV
  /\ out = None

NextKey == DoCompile \/ StepKey \/ Return

SpecKey == InitKey /\ [][NextKey]_vars

\* Field by field: the object v has a field named k; its value.
HasField(v, k) == v.t = "object" /\ \E i \in 1..Len(v.o) : v.o[i].k = k

Field(v, k) == v.o[CHOOSE i \in 1..Len(v.o) : v.o[i].k = k].v

\* Following k1..kn from v field by field reaches a value.
RECURSIVE Reaches(_, _)
Reaches(v, ks) ==
  IF Len(ks) = 0 THEN TRUE
  ELSE HasField(v, Head(ks)) /\ Reaches(Field(v, Head(ks)), Tail(ks))

RECURSIVE Reached(_, _)
Reached(v, ks) == IF Len(ks) = 0 THEN v ELSE Reached(Field(v, Head(ks)), Tail(ks))

\* C2: for a path `$.k1...kn` of plain keys over nested objects, Lookup
\* returns exactly the value reached by following k1..kn field by field when
\* every key is present; when a key is absent from the object reached, or the
\* value reached is a scalar, it returns an error and no value.
C2_KeyWalk ==
  (pc = "done" /\ root \in ObjRoots) =>
    IF Reaches(root, call.keys) THEN out = Ok(Reached(root, call.keys))
    ELSE out.k = "err" /\ out.v = NilV

\* A value was reached through two keys or more.
C2_Witness ==
  /\ pc = "done"
  /\ root \in ObjRoots
  /\ Len(call.keys) >= 2
  /\ out.k = "ok"
  /\ out.v.t = "number"

\* The current value is an array whose elements are all objects, and the
\* step is a plain key step.
BroadcastCase ==
  /\ AtStep({"key"})
  /\ steps[pos].args.kind = "nil"
  /\ Len(steps[pos].key) > 0
  /\ obj.t = "array"
  /\ \A i \in 1..Len(obj.a) : obj.a[i].t = "object"

\* A slot of a result that reads as null: the nil value or a JSON null.
IsNullish(v) == v = NilV \/ v.t = "null"

\* C7 as stated: the broadcast of a key step over an array of objects does
\* not fail, its result is a new array of the same length, and element i of
\* the result is null exactly when element i of the array lacks the key,
\* otherwise it is that element's field value.
C7_NullIffMissing ==
  [][BroadcastCase =>
       /\ pc' = "run"
       /\ obj'.t = "array"
       /\ Len(obj'.a) = Len(obj.a)
       /\ \A i \in 1..Len(obj.a) :
            /\ IsNullish(obj'.a[i]) <=> ~HasField(obj.a[i], steps[pos].key)
            /\ HasField(obj.a[i], steps[pos].key) => obj'.a[i] = Field(obj.a[i], steps[pos].key)]_vars

\* C7 amended: element i of the result is the nil value (absent) exactly when
\* element i of the array lacks the key, otherwise it is that element's field
\* value, which is a JSON null when the field holds null.
C7_NilIffMissing ==
  [][BroadcastCase =>
       /\ pc' = "run"
       /\ obj'.t = "array"
       /\ Len(obj'.a) = Len(obj.a)
       /\ \A i \in 1..Len(obj.a) :
            /\ obj'.a[i] = NilV <=> ~HasField(obj.a[i], steps[pos].key)
            /\ HasField(obj.a[i], steps[pos].key) => obj'.a[i] = Field(obj.a[i], steps[pos].key)]_vars

\* A broadcast has produced an array with a nil slot, a null field value and
\* another field value.
C7_Witness ==
  /\ pc = "run"
  /\ pos = 2
  /\ root.t = "array"
  /\ obj.t = "array"
  /\ Len(obj.a) = Len(root.a)
  /\ \E i, j, k \in 1..Len(obj.a) : obj.a[i] = NilV /\ obj.a[j] = Null /\ obj.a[k].t = "number"

(***************************************************************************)
(* C3: index steps `$[i]` and `$[i,j]`                                     *)
(***************************************************************************)

\* The largest length of an array of the index and slice steps' inputs.
MaxLen == 5

\* The largest number of indices of one bracket.
MaxIdx == 2

\* The text of a natural number and of an integer, as a path spells them.
RECURSIVE NatText(_)
NatText(n) ==
  LET d == <<"0", "1", "2", "3", "4", "5", "6", "7", "8", "9">>[(n % 10) + 1] IN
    IF n < 10 THEN <<d>> ELSE Append(NatText(n \div 10), d)

IntText(n) == IF n < 0 THEN <<"-">> \o NatText(0 - n) ELSE NatText(n)

\* The array [1, 2, ..., n].
Counting(n) == Arr([i \in 1..n |-> Num(NatText(i))])

Arrays == {Counting(n) : n \in 0..MaxLen}

NonArrays == {Obj(<<KV(KeyA, N1)>>), Obj(<< >>), N1, SX, Null}

\* The indices asked for: each of them in range of some array, or just
\* outside the longest.
IdxLists == UNION {[1..n -> (0 - (MaxLen + 1))..(MaxLen + 1)] : n \in 1..MaxIdx}

RECURSIVE CommaInts(_)
CommaInts(is) ==
  IF Len(is) = 1 THEN IntText(is[1]) ELSE (IntText(Head(is)) \o <<",">>) \o CommaInts(Tail(is))

\* The text `$[i]` or `$[i,j,...]`.
IdxPath(is) == (<<"$", "[">> \o CommaInts(is)) \o <<"]">>

InitIdx ==
  /\ call \in {[fn |-> "idx", ints |-> is] : is \in IdxLists}
  /\ jpath = IdxPath(call.ints)
  /\ root \in Arrays \cup NonArrays
  /\ pc = "start"
  /\ steps = << >>
  /\ pos = 0
  /\ obj = NilV
  /\ out = None

NextIdx == DoCompile \/ StepIdx \/ Return

SpecIdx == InitIdx /\ [][NextIdx]_vars

\* Index i is within an array of length L; the element it selects.
InRange(i, L) == 0 - L <= i /\ i < L

Selected(a, i) == IF i >= 0 THEN a[i + 1] ELSE a[Len(a) + i + 1]

\* C3: an index step on an array of length L selects element i when
\* 0 <= i < L and element L+i when -L <= i < 0, and fails with a range error
\* when i >= L or i < -L; a list of several indices yields a new array of the
\* selected elements in request order, duplicates allowed, and fails when any
\* one index is out of range; a non-array input fails.
C3_Index ==
  pc = "done" =>
    IF root.t # "array" THEN out.k = "err"
    ELSE IF \E k \in 1..Len(call.ints) : ~InRange(call.ints[k], Len(root.a)) THEN out = Err("range")
    ELSE IF Len(call.ints) = 1 THEN out = Ok(Selected(root.a, call.ints[1]))
    ELSE out = Ok(Arr([k \in 1..Len(call.ints) |-> Selected(root.a, call.ints[k])]))

\* The index -L was asked for twice and the first element came back twice.
C3_Witness ==
  /\ pc = "done"
  /\ root.t = "array"
  /\ Len(root.a) >= 2
  /\ call.ints = <<0 - Len(root.a), 0 - Len(root.a)>>
  /\ out = Ok(Arr(<<root.a[1], root.a[1]>>))

(***************************************************************************)
(* C4, C5, C6: slice steps `$[from:to]` and `$[*]`                         *)
(***************************************************************************)

\* The bounds asked for: unspecified, or an integer that is in range of some
\* array or just outside the longest.
Bounds == {NilBound} \cup {IntBound(n) : n \in (0 - (MaxLen + 1))..(MaxLen + 1)}

BoundText(b) == IF b.nil THEN Empty ELSE IntText(b.n)

\* The text `$[from:to]`, or `$[*]`.
RangePath(c) ==
  IF c.star THEN <<"$", "[", "*", "]">>
  ELSE ((<<"$", "[">> \o BoundText(c.frm)) \o <<":">>) \o (BoundText(c.to) \o <<"]">>)

RangeCalls ==
  {[fn |-> "range", star |-> FALSE, frm |-> f, to |-> t] : f \in Bounds, t \in Bounds}
    \cup {[fn |-> "range", star |-> TRUE, frm |-> NilBound, to |-> NilBound]}

InitRange ==
  /\ call \in RangeCalls
  /\ jpath = RangePath(call)
  /\ root \in Arrays \cup NonArrays
  /\ pc = "start"
  /\ steps = << >>
  /\ pos = 0
  /\ obj = NilV
  /\ out = None

NextRange == DoCompile \/ StepRange \/ Return

SpecRange == InitRange /\ [][NextRange]_vars

\* The normalized bounds as the slice step is described: from' is from, or
\* L+from when negative, 0 by default; to' is to+1, or L+to+1 when negative,
\* L by default.
FromOf(b, L) == IF b.nil THEN 0 ELSE IF b.n < 0 THEN L + b.n ELSE b.n

ToOf(b, L) == IF b.nil THEN L ELSE IF b.n < 0 THEN L + b.n + 1 ELSE b.n + 1

\* 0 <= from' <= to' <= L
WellFormed(f, t, L) == 0 <= f /\ f <= t /\ t <= L

\* C4: on an array of length L, for bounds whose normalized values are in
\* range (within [0, L]) with from' <= to', the slice step yields exactly the
\* elements at positions from' .. to'-1 in order; so [0:L-1] yields the whole
\* array, [:k] the first k+1 elements and [-2:] the last two.
C4_SliceElements ==
  (pc = "done" /\ root.t = "array"
     /\ WellFormed(FromOf(call.frm, Len(root.a)), ToOf(call.to, Len(root.a)), Len(root.a))) =>
    out = Ok(Arr(SubSeq(root.a, FromOf(call.frm, Len(root.a)) + 1, ToOf(call.to, Len(root.a)))))

\* C5: a slice with both bounds unspecified, `[*]` or `[:]`, applied to any
\* array, the empty array included, succeeds and yields the whole array.
C5_WholeArray ==
  (pc = "done" /\ root.t = "array" /\ call.frm.nil /\ call.to.nil) => out = Ok(root)

\* C6: for every array and every pair of slice bounds, a slice whose
\* normalized bounds violate 0 <= from' <= to' <= L makes Lookup return a
\* range error value; slice evaluation never aborts.
C6_RangeError ==
  (pc = "done" /\ root.t = "array") =>
    /\ out.k # "panic"
    /\ ~WellFormed(FromOf(call.frm, Len(root.a)), ToOf(call.to, Len(root.a)), Len(root.a)) =>
         out = Err("range")

(***************************************************************************)
(* C8: steps on a null current value                                       *)
(***************************************************************************)

\* Trees with a JSON null at the root, under a key and in an array, and an
\* array of objects whose broadcast has a nil slot.
NullRoots ==
  { Null,
    Obj(<<KV(KeyA, Null)>>),
    Arr(<<Null>>),
    Arr(<<Obj(<<KV(KeyA, N1)>>), Obj(<<KV(KeyB, SX)>>)>>),
    Obj(<<KV(KeyA, Arr(<<Null, Null>>))>>) }

\* Paths whose steps meet the null: a key, an index, a slice and a filter
\* step, first in the path and after a step that yields the null.
NullPaths ==
  { <<"$", ".", "a">>,
    <<"$", ".", "a", ".", "b">>,
    <<"$", "[", "0", "]">>,
    <<"$", "[", "0", ":", "1", "]">>,
    <<"$", "[", "?", "(", "@", ".", "a", ")", "]">>,
    <<"$", "[", "0", "]", ".", "a">>,
    <<"$", "[", "0", "]", "[", "0", "]">>,
    <<"$", "[", "0", "]", "[", "0", ":", "1", "]">>,
    <<"$", "[", "0", "]", "[", "?", "(", "@", ".", "a", ")", "]">>,
    <<"$", ".", "a", "[", "-", "1", "]", ".", "b">>,
    <<"$", ".", "a", "[", "-", "1", "]", "[", "0", "]">>,
    <<"$", ".", "a", "[", "-", "1", "]", "[", "0", ":", "1", "]">>,
    <<"$", ".", "a", "[", "-", "1", "]", "[", "?", "(", "@", ".", "a", ")", "]">> }

InitNull ==
  /\ jpath \in NullPaths
  /\ root \in NullRoots
  /\ pc = "start"
  /\ steps = << >>
  /\ pos = 0
  /\ obj = NilV
  /\ out = None
  /\ call = NoCall

NextNull == DoCompile \/ StepKey \/ StepIdx \/ StepRange \/ StepFilter \/ Return

SpecNull == InitNull /\ [][NextNull]_vars

\* C8: every step kind (key, index, slice, filter) applied when the current
\* value is null (a JSON null, or the nil value of an absent field) fails with
\* the null-dereference error, not with a silent null or an abort.
C8_NullStepFails ==
  [][(AtStep({"key", "idx", "range", "filter"}) /\ IsNullish(obj)) =>
       (pc' = "done" /\ out' = Err("null"))]_vars

(***************************************************************************)
(* C9: filter steps `$.a[?(@.k op r)]` on an array                         *)
(***************************************************************************)

\* The largest length of the array a filter is applied to.
MaxElems == 3

\* The elements: objects with number and string fields, one without "b".
Candidates ==
  { Obj(<<KV(KeyA, N1), KV(KeyB, SX)>>),
    Obj(<<KV(KeyA, N2), KV(KeyB, N1)>>),
    Obj(<<KV(KeyA, Num(<<"1", "0">>))>>) }

FilterRoots == {Obj(<<KV(KeyA, Arr(es))>>) : es \in UNION {[1..n -> Candidates] : n \in 0..MaxElems}}

Literals == {<<"1">>, <<"2">>, <<"1", "0">>, <<"x">>}

\* The predicates: `@.k` alone (exists) and `@.k op r`; tail is a key step
\* `.b` after the filter.
FilterCalls ==
  {[fn |-> "filter", key |-> k, op |-> o, rp |-> r, tail |-> t] :
     k \in KeyNames, o \in CmpOps, r \in Literals, t \in BOOLEAN}
    \cup {[fn |-> "filter", key |-> k, op |-> OpExists, rp |-> Empty, tail |-> t] :
            k \in KeyNames, t \in BOOLEAN}

\* The text `$.a[?(@.k op r)]` or `$.a[?(@.k)]`, with `.b` after it.
FilterPath(c) ==
  (((<<"$", ".", "a", "[", "?", "(", "@", ".">> \o c.key)
      \o (IF c.op = OpExists THEN Empty ELSE ((<<" ">> \o c.op) \o <<" ">>) \o c.rp))
     \o <<")", "]">>)
    \o (IF c.tail THEN <<".", "b">> ELSE Empty)

InitFilter ==
  /\ call \in FilterCalls
  /\ jpath = FilterPath(call)
  /\ root \in FilterRoots
  /\ pc = "start"
  /\ steps = << >>
  /\ pos = 0
  /\ obj = NilV
  /\ out = None

NextFilter == DoCompile \/ StepFilter \/ StepKey \/ Return

SpecFilter == InitFilter /\ [][NextFilter]_vars

\* The predicate of the call on one element.
Satisfies(e) == eval_filter(e, root, <<"@", ".">> \o call.key, call.op, call.rp)

\* The elements of the array that satisfy the predicate, in their order.
Matching == LET Sat(e) == Satisfies(e).b IN SelectSeq(root.o[1].v.a, Sat)

\* C9: a filter step applied to an array, when the predicate evaluates
\* without error on every element, returns exactly the elements that satisfy
\* the predicate in their original order; when no element matches, the result
\* is an empty array and no error, and a following key step yields an empty
\* array.
C9_FilterSelects ==
  (pc = "done" /\ \A i \in 1..Len(root.o[1].v.a) : Satisfies(root.o[1].v.a[i]).k = "ok") =>
    /\ ~call.tail => out = Ok(Arr(Matching))
    /\ (call.tail /\ Len(Matching) = 0) => out = Ok(Arr(<< >>))

\* Two different elements of three were selected, the second one was not.
C9_Witness ==
  /\ pc = "done"
  /\ ~call.tail
  /\ Len(root.o[1].v.a) = 3
  /\ out.k = "ok"
  /\ Len(out.v.a) = 2
  /\ out.v.a[1] = root.o[1].v.a[1]
  /\ out.v.a[2] = root.o[1].v.a[3]
  /\ out.v.a[1] # out.v.a[2]

(***************************************************************************)
(* C10: cmp_any                                                            *)
(***************************************************************************)

\* Operands: numbers, and strings whose text is a number (with a leading
\* zero or without) or is not.
Operands ==
  { Num(<<"9">>), Num(<<"2", "0">>), Num(<<"1", "0", "0">>), Num(<<"1", ".", "5">>),
    Str(<<"9">>), Str(<<"2", "0">>), Str(<<"0", "1", "0">>), Str(<<"0", "8">>),
    Str(<<"a", "b", "c">>), Str(<<"a", "b">>) }

Operators == CmpOps \cup {OpMatch, <<"=">>}

InitCmp ==
  /\ call \in {[fn |-> "cmp", obj1 |-> a, obj2 |-> b, op |-> o] :
                 a \in Operands, b \in Operands, o \in Operators}
  /\ jpath = Empty
  /\ root = NilV
  /\ pc = "start"
  /\ steps = << >>
  /\ pos = 0
  /\ obj = NilV
  /\ out = None

\* One call cmp_any(obj1, obj2, op).
DoCmp ==
  /\ pc = "start"
  /\ call.fn = "cmp"
  /\ out' = cmp_any(call.obj1, call.obj2, call.op)
  /\ pc' = "done"
  /\ UNCHANGED <<jpath, root, steps, pos, obj, call>>

NextCmp == DoCmp

SpecCmp == InitCmp /\ [][NextCmp]_vars

\* An operand is numeric: a number, or a string whose text parses as one.
Numeric(v) == v.t = "number" \/ (v.t = "string" /\ ParseFloatOk(v.s))

\* C10: for an operator in {<, <=, ==, !=, >=, >}, when both operands are
\* numeric (a number, or a string whose text parses as a number) the result is
\* the numeric comparison of their values, otherwise it is the lexicographic
\* comparison of the two texts under the same operator; any other operator is
\* rejected with an error.
C10_Compare ==
  pc = "done" =>
    IF call.op \notin CmpOps THEN out.k = "err"
    ELSE IF Numeric(call.obj1) /\ Numeric(call.obj2) THEN
      out = BOk(OpHolds(call.op, IntCmp(DecimalVal(call.obj1.s), DecimalVal(call.obj2.s))))
    ELSE out = BOk(OpHolds(call.op, LexCmp(call.obj1.s, call.obj2.s)))

(***************************************************************************)
(* C11: wildcard-scan steps                                                *)
(***************************************************************************)

\* C11: Lookup of a path that contains a wildcard-scan step (from `..` or
\* `.*`) succeeds at that step: the step does not end the walk, which goes on
\* to apply the step that follows to the children of the current value.
C11_ScanSucceeds == [][AtStep({"scan"}) => pc' = "run"]_vars

(***************************************************************************)
(* C12: JsonPathExists and Compiled.Exists                                 *)
(***************************************************************************)

\* Value.Exists() without keys: the receiver is not nil.
ValuePresent(v) == v # NilV

\* Value.Empty(): a null, or a container without elements.
ValueEmpty(v) ==
  \/ v.t = "null"
  \/ (v.t = "array" /\ Len(v.a) = 0)
  \/ (v.t = "object" /\ Len(v.o) = 0)

\* Compiled.Exists that leaves out the test for an empty value
ExistsOn_NoEmpty(r) ==
  IF r.k = "panic" THEN BPanic
  ELSE IF r.k = "err" THEN BOk(FALSE)
  ELSE BOk(ValuePresent(r.v))

\* Compiled.Exists, r the result of c.Lookup(root)
ExistsOn(r) ==
  IF r.k = "panic" THEN BPanic
  ELSE IF r.k = "err" THEN BOk(FALSE)
  ELSE BOk(ValuePresent(r.v) /\ ~ValueEmpty(r.v))

Exists(st, rt) == ExistsOn(Lookup(st, rt))

\* JsonPathExists, c the result of Compile(jpath)
ExistsCompiled(c, rt) ==
  IF c.k = "err" THEN BOk(FALSE)
  ELSE IF c.k = "panic" THEN BPanic
  ELSE Exists(c.steps, rt)

JsonPathExists(rt, path) == ExistsCompiled(Compile(path), rt)

InitExists ==
  /\ jpath \in Paths
  /\ root \in Roots
  /\ call \in {[fn |-> "JsonPathExists"], [fn |-> "Exists"]}
  /\ pc = "start"
  /\ steps = << >>
  /\ pos = 0
  /\ obj = NilV
  /\ out = None

\* One call JsonPathExists(root, jpath).
DoJsonPathExists ==
  /\ pc = "start"
  /\ call.fn = "JsonPathExists"
  /\ out' = JsonPathExists(root, jpath)
  /\ pc' = "done"
  /\ UNCHANGED <<jpath, root, steps, pos, obj, call>>

\* One call c.Exists(root), c a path that compiled.
ExistsDone(c) ==
  /\ c.k = "ok"
  /\ steps' = c.steps
  /\ out' = Exists(c.steps, root)

DoExists ==
  /\ pc = "start"
  /\ call.fn = "Exists"
  /\ ExistsDone(Compile(jpath))
  /\ pc' = "done"
  /\ UNCHANGED <<jpath, root, pos, obj, call>>

NextExists == DoJsonPathExists \/ DoExists

SpecExists == InitExists /\ [][NextExists]_vars

\* A value that is neither absent, nor null, nor an empty container.
NonEmptyValue(v) ==
  /\ v # NilV
  /\ v.t # "null"
  /\ ~(v.t = "array" /\ v.a = << >>)
  /\ ~(v.t = "object" /\ v.o = << >>)

\* What Compile followed by Lookup gives for the call's path and tree.
LookupOutcome == JsonPathLookup(root, jpath)

\* C12: JsonPathExists / Compiled.Exists returns false whenever Compile or
\* Lookup returns an error, and returns true exactly when Lookup succeeds
\* with a value that is neither null (nor absent) nor an empty container.
C12_Exists ==
  pc = "done" =>
    /\ LookupOutcome.k = "err" => out = BOk(FALSE)
    /\ out = BOk(TRUE) <=> (LookupOutcome.k = "ok" /\ NonEmptyValue(LookupOutcome.v))

\* Lookup succeeded with an empty array, and the answer was false.
C12_Witness ==
  /\ pc = "done"
  /\ call.fn = "Exists"
  /\ Len(steps) > 0
  /\ LookupOutcome = Ok(Arr(<< >>))
  /\ out = BOk(FALSE)

(***************************************************************************)
(* C13: concurrent Lookup calls on one Compiled path                       *)
(***************************************************************************)

\* The number of Lookup calls that run at the same time.
NumProcs == 2

Procs == 1..NumProcs

\* Paths that compile: keys, an index, a slice, a filter, a key list.
ConcPaths ==
  { <<"$", ".", "a">>,
    <<"$", ".", "a", ".", "b">>,
    <<"$", "[", "0", "]", ".", "a">>,
    <<"$", ".", "a", "[", "0", ":", "1", "]", ".", "a">>,
    <<"$", ".", "a", "[", "?", "(", "@", ".", "a", " ", ">", " ", "1", ")", "]">>,
    <<"$", "[", "'", "a", "'", ",", "'", "b", "'", "]">> }

ConcRoots ==
  { Obj(<<KV(KeyA, Obj(<<KV(KeyB, N1)>>)), KV(KeyB, Null)>>),
    Arr(<<Obj(<<KV(KeyA, N1)>>), Obj(<<KV(KeyB, SX)>>)>>),
    Obj(<<KV(KeyA, Arr(<<Obj(<<KV(KeyA, N2)>>), Obj(<<KV(KeyA, N1), KV(KeyB, SX)>>)>>))>>) }

\* A call c.Lookup(root) that has not started: its locals.
Idle(rt) == [root |-> rt, pc |-> "idle", pos |-> 0, obj |-> NilV, out |-> None]

InitConc ==
  /\ jpath \in ConcPaths
  /\ call \in {[fn |-> "Lookup", procs |-> ps] : ps \in [Procs -> {Idle(rt) : rt \in ConcRoots}]}
  /\ root = NilV
  /\ pc = "start"
  /\ steps = << >>
  /\ pos = 0
  /\ obj = NilV
  /\ out = None

\* Compile(jpath), once, before the calls; c its result.
CompiledOnce(c) ==
  /\ c.k = "ok"
  /\ steps' = c.steps
  /\ pc' = "shared"

CompileOnce ==
  /\ pc = "start"
  /\ call.fn = "Lookup"
  /\ CompiledOnce(Compile(jpath))
  /\ UNCHANGED <<jpath, root, pos, obj, out, call>>

\* `obj := root` of call p
ProcBegin(p) ==
  /\ pc = "shared"
  /\ call.procs[p].pc = "idle"
  /\ call' = [call EXCEPT !.procs[p] = [@ EXCEPT !.pc = "run", !.pos = 1, !.obj = call.procs[p].root]]
  /\ UNCHANGED <<jpath, root, pc, steps, pos, obj, out>>

\* The end of one iteration of call p with the loop index kept in the
\* Compiled path, where every running call advances with it
Advance_SharedPos(ps, p, r) ==
  IF r.k = "ok" THEN
    [q \in Procs |->
       IF q = p THEN [ps[q] EXCEPT !.obj = r.v, !.pos = @ + 1]
       ELSE IF ps[q].pc = "run" THEN [ps[q] EXCEPT !.pos = @ + 1]
       ELSE ps[q]]
  ELSE [ps EXCEPT ![p] = [@ EXCEPT !.pc = "done", !.out = (IF r.k = "ret" THEN Ok(NilV) ELSE r)]]

\* The end of one iteration of the loop of call p, r the step's result: the
\* locals obj and the loop index of that call change, nothing else.
Advance(ps, p, r) ==
  IF r.k = "ok" THEN [ps EXCEPT ![p] = [@ EXCEPT !.obj = r.v, !.pos = @ + 1]]
  ELSE [ps EXCEPT ![p] = [@ EXCEPT !.pc = "done", !.out = (IF r.k = "ret" THEN Ok(NilV) ELSE r)]]

\* A run-time panic in one call ends the program.
ProcStepped(p, r) ==
  /\ call' = [call EXCEPT !.procs = Advance(call.procs, p, r)]
  /\ pc' = (IF r.k = "panic" THEN "crashed" ELSE pc)

ProcStep(p) ==
  /\ pc = "shared"
  /\ call.procs[p].pc = "run"
  /\ call.procs[p].pos <= Len(steps)
  /\ ProcStepped(p, LookupStep(steps[call.procs[p].pos], call.procs[p].obj, call.procs[p].root))
  /\ UNCHANGED <<jpath, root, steps, pos, obj, out>>

\* `return obj, nil` of call p
ProcReturn(p) ==
  /\ pc = "shared"
  /\ call.procs[p].pc = "run"
  /\ call.procs[p].pos > Len(steps)
  /\ call' = [call EXCEPT !.procs[p] = [@ EXCEPT !.pc = "done", !.out = Ok(call.procs[p].obj)]]
  /\ UNCHANGED <<jpath, root, pc, steps, pos, obj, out>>

LookupBegin == \E p \in Procs : ProcBegin(p)

LookupIterate == \E p \in Procs : ProcStep(p)

LookupReturn == \E p \in Procs : ProcReturn(p)

NextConc == CompileOnce \/ LookupBegin \/ LookupIterate \/ LookupReturn

SpecConc == InitConc /\ [][NextConc]_vars

\* C13: under any interleaving of Lookup calls on one Compiled path, against
\* the same or different trees, the step list of the Compiled path and the
\* input trees are left unchanged, and each call returns the same result as
\* the one-shot JsonPathLookup of the same path text on that tree.
C13_Reuse ==
  [][pc = "shared" =>
       /\ steps' = steps
       /\ \A p \in Procs :
            /\ call'.procs[p].root = call.procs[p].root
            /\ call'.procs[p].pc = "done" =>
                 call'.procs[p].out = JsonPathLookup(call.procs[p].root, jpath)]_vars

\* The second call has returned a value while the first one, on another
\* tree, is between two steps.
C13_Witness ==
  /\ pc = "shared"
  /\ call.procs[1].pc = "run"
  /\ call.procs[1].pos = 2
  /\ Len(steps) >= 2
  /\ call.procs[2].pc = "done"
  /\ call.procs[2].out.k = "ok"
  /\ call.procs[2].root # call.procs[1].root

(***************************************************************************)
(* C14: `$[:t].[i].test` on an array of arrays of objects                  *)
(***************************************************************************)

\* The largest length of the outer and of the inner arrays.
MaxNest == 3

KeyTest == <<"t", "e", "s", "t">>

\* The object {"test": o.i}, element i of inner array o.
TestObj(o, i) == Obj(<<KV(KeyTest, Num((NatText(o) \o <<".">>) \o NatText(i)))>>)

\* n inner arrays of m objects each.
Nested(n, m) == Arr([o \in 1..n |-> Arr([i \in 1..m |-> TestObj(o, i)])])

\* [[{test:1.1},{test:2.1}],[{test:3.1},{test:4.1}]]
NestedOfTest ==
  Arr(<<Arr(<<TestObj(1, 1), TestObj(2, 1)>>), Arr(<<TestObj(3, 1), TestObj(4, 1)>>)>>)

NestedRoots == {Nested(n, m) : n \in 1..MaxNest, m \in 1..MaxNest} \cup {NestedOfTest}

\* The text `$[:t].[i].test`.
NestedPath(c) ==
  ((<<"$", "[", ":">> \o IntText(c.to)) \o <<"]", ".", "[">>)
    \o ((IntText(c.idx) \o <<"]", ".">>) \o KeyTest)

InitNested ==
  /\ call \in {[fn |-> "nested", to |-> t, idx |-> i] : t \in 0..(MaxNest - 1), i \in 0..(MaxNest - 1)}
  /\ jpath = NestedPath(call)
  /\ root \in NestedRoots
  /\ pc = "start"
  /\ steps = << >>
  /\ pos = 0
  /\ obj = NilV
  /\ out = None

NextNested == DoCompile \/ StepRange \/ StepIdx \/ StepKey \/ Return

SpecNested == InitNested /\ [][NextNested]_vars

\* C14: on a root that is an array of arrays of objects, an index step that
\* follows a slice step is applied to each element of the slice:
\* `$[:t].[i].test` returns one value per sliced inner array, the `test` field
\* of element i of that inner array.
C14_IndexEachSliced ==
  (pc = "done"
     /\ call.to < Len(root.a)
     /\ \A o \in 1..(call.to + 1) : call.idx < Len(root.a[o].a)) =>
    out = Ok(Arr([o \in 1..(call.to + 1) |-> Field(root.a[o].a[call.idx + 1], KeyTest)]))

(***************************************************************************)
(* C15: the right operand of `=~`                                          *)
(***************************************************************************)

\* The largest length of a right operand.
MaxRule == 4

RuleChars == {"/", "x", "i", "'"}

Rules == UNION {[1..n -> RuleChars] : n \in 0..MaxRule}

\* Objects whose field "b" is a string and a number.
RegCandidates == {Obj(<<KV(KeyB, SX)>>), Obj(<<KV(KeyB, N1)>>)}

\* The `=~` branch of get_filtered for an object: regFilterCompile, then
\* eval_reg_filter with the compiled pattern; c the result of the former.
RegFilterBy(c, o, rt, lp) == IF ~c.ok THEN BErr ELSE eval_reg_filter(o, rt, lp, c.pat)

RegFilter(o, rt, lp, rule) == RegFilterBy(regFilterCompile(rule), o, rt, lp)

InitReg ==
  /\ call \in {[fn |-> "reg", rule |-> r] : r \in Rules}
  /\ root \in RegCandidates
  /\ jpath = Empty
  /\ pc = "start"
  /\ steps = << >>
  /\ pos = 0
  /\ obj = NilV
  /\ out = None

\* The predicate `@.b =~ rule` on the object root.
DoRegFilter ==
  /\ pc = "start"
  /\ call.fn = "reg"
  /\ out' = RegFilter(root, root, <<"@", ".", "b">>, call.rule)
  /\ pc' = "done"
  /\ UNCHANGED <<jpath, root, steps, pos, obj, call>>

NextReg == DoRegFilter

SpecReg == InitReg /\ [][NextReg]_vars

\* The text has the form `/pattern/` with a non-empty pattern, optionally
\* followed by flag letters.
SlashForm(rule) ==
  \E k \in 3..Len(rule) :
    /\ rule[1] = "/"
    /\ rule[k] = "/"
    /\ \A j \in (k + 1)..Len(rule) : rule[j] \in {"i", "x"}

\* C15: for the `=~` operator the right operand is accepted exactly when it
\* has the form `/pattern/` with a non-empty pattern, optionally followed by
\* flag letters; every other operand text makes the filter fail with an
\* error, as does a left operand that does not resolve to a string.
C15_RegOperand ==
  pc = "done" =>
    (out.k = "ok" <=> (SlashForm(call.rule) /\ Field(root, KeyB).t = "string"))

(***************************************************************************)
(* C16, C17, C18: tokenize                                                 *)
(***************************************************************************)

\* The largest length of a generated path string.
MaxQuery == 5

QueryChars == {"$", "@", ".", "*", "a", "[", "]"}

\* Longer path strings: repeated dots, repeated wildcards, a filter with a
\* nested bracket, an escaped "]", a plain path.
QueryExamples ==
  { <<"$", ".", ".", ".", ".", "a">>,
    <<"$", ".", ".", "*">>,
    <<"$", ".", "*", ".", "*", ".", "a">>,
    <<"$", ".", "a", "[", "?", "(", "@", ".", "b", "[", "0", "]", " ", "=", "=", " ", "1", ")", "]", ".", "c">>,
    <<"$", ".", "a", "[", "'", "\\", "]", "'", "]", ".", "c">>,
    <<"$", ".", "s", "t", "o", "r", "e", ".", "b", "o", "o", "k", "[", "0", "]", ".", "t", "i", "t", "l", "e">> }

Queries == UNION {[1..n -> QueryChars] : n \in 0..MaxQuery} \cup QueryExamples

InitTok ==
  /\ call \in {[fn |-> "tokenize", query |-> q] : q \in Queries}
  /\ jpath = call.query
  /\ root = NilV
  /\ pc = "start"
  /\ steps = << >>
  /\ pos = 0
  /\ obj = NilV
  /\ out = None

\* One call tokenize(query), and Compile(query) on top of it.
DoTokenize ==
  /\ pc = "start"
  /\ call.fn = "tokenize"
  /\ out' = [tok |-> tokenize(call.query), compile |-> Compile(call.query).k]
  /\ pc' = "done"
  /\ UNCHANGED <<jpath, root, steps, pos, obj, call>>

NextTok == DoTokenize

SpecTok == InitTok /\ [][NextTok]_vars

\* The string begins with `$` or `@`.
Rooted(q) == Len(q) > 0 /\ q[1] \in {"$", "@"}

\* C16: tokenize returns a tokenizer error for every string that does not
\* begin with `$` or `@`, the empty string included, and on success the first
\* token of its result is exactly `$` or `@`; Compile therefore reports a
\* compile error for any such string.
C16_RootedOrError ==
  pc = "done" =>
    /\ ~Rooted(call.query) => (out.tok.err /\ out.compile = "err")
    /\ ~out.tok.err =>
         (Len(out.tok.tokens) > 0 /\ out.tok.tokens[1] \in {<<"$">>, <<"@">>})

\* C17: for every path string, the token list produced by tokenize never
\* contains two adjacent `*` tokens: consecutive wildcards are coalesced into
\* a single `*` token.
C17_NoAdjacentStars ==
  (pc = "done" /\ ~out.tok.err) =>
    \A i \in 1..(Len(out.tok.tokens) - 1) :
      ~(out.tok.tokens[i] = <<"*">> /\ out.tok.tokens[i + 1] = <<"*">>)

\* Every "[" of the text from position i on is closed by a later "]" that is
\* not escaped, and no such "]" comes without its "[": d brackets are open.
RECURSIVE BalancedFrom(_, _, _)
BalancedFrom(t, i, d) ==
  IF i > Len(t) THEN d = 0
  ELSE IF t[i] = "[" THEN BalancedFrom(t, i + 1, d + 1)
  ELSE IF t[i] = "]" /\ ~(i > 1 /\ t[i - 1] = "\\") THEN d > 0 /\ BalancedFrom(t, i + 1, d - 1)
  ELSE BalancedFrom(t, i + 1, d)

Balanced(t) == BalancedFrom(t, 1, 0)

\* C18: tokenize emits a bracket expression as part of one token that runs
\* from its key prefix to the `]` matching its `[`: dots, an escaped `]` and
\* nested `[...]` inside the bracket never end or split the token, so that
\* every token of a string with matching brackets has matching brackets.
C18_BracketInOneToken ==
  (pc = "done" /\ ~out.tok.err /\ Balanced(call.query)) =>
    \A i \in 1..Len(out.tok.tokens) : Balanced(out.tok.tokens[i])

(***************************************************************************)
(* C19, C20: parse_token on bracket tokens                                 *)
(***************************************************************************)

\* The largest length of a bracket interior.
MaxInterior == 4

InteriorChars == {"?", "(", ")", "@", ":", "1", "x", " "}

Interiors == UNION {[1..n -> InteriorChars] : n \in 0..MaxInterior}

\* The token `key[interior]`.
BracketToken(key, interior) == (key \o <<"[">>) \o (interior \o <<"]">>)

InitParse ==
  /\ call \in {[fn |-> "parse_token", key |-> k, interior |-> i] : k \in {Empty, KeyA}, i \in Interiors}
  /\ jpath = BracketToken(call.key, call.interior)
  /\ root = NilV
  /\ pc = "start"
  /\ steps = << >>
  /\ pos = 0
  /\ obj = NilV
  /\ out = None

\* One call parse_token(token).
DoParseToken ==
  /\ pc = "start"
  /\ call.fn = "parse_token"
  /\ out' = parse_token(jpath)
  /\ pc' = "done"
  /\ UNCHANGED <<jpath, root, steps, pos, obj, call>>

NextParse == DoParseToken

SpecParse == InitParse /\ [][NextParse]_vars

\* The interior is wrapped as `?( ... )`; the text inside the wrapper.
Wrapped(i) == Len(i) >= 3 /\ i[1] = "?" /\ i[2] = "(" /\ i[Len(i)] = ")"

Inner(i) == SubSeq(i, 3, Len(i) - 1)

\* A text without the spaces around it.
RECURSIVE Unspaced(_)
Unspaced(t) ==
  IF Len(t) = 0 THEN t
  ELSE IF t[1] = " " THEN Unspaced(Tail(t))
  ELSE IF t[Len(t)] = " " THEN Unspaced(SubSeq(t, 1, Len(t) - 1))
  ELSE t

\* C19: parse_token on a token whose bracket interior contains `?` returns a
\* filter step carrying the trimmed inner text when the interior is wrapped
\* as `?( ... )`, and returns a format error otherwise.
C19_FilterToken ==
  (pc = "done" /\ \E k \in 1..Len(call.interior) : call.interior[k] = "?") =>
    IF Wrapped(call.interior) THEN
      /\ ~out.err
      /\ out.op = "filter"
      /\ out.key = call.key
      /\ out.args.kind = "str"
      /\ out.args.str = Unspaced(Inner(call.interior))
    ELSE out.err

\* The positions of the `:` characters of a text, and the two sides of the
\* only one.
Colons(i) == {k \in 1..Len(i) : i[k] = ":"}

FromSide(i) == Unspaced(SubSeq(i, 1, (CHOOSE k \in Colons(i) : TRUE) - 1))

ToSide(i) == Unspaced(SubSeq(i, (CHOOSE k \in Colons(i) : TRUE) + 1, Len(i)))

\* A side is blank or an integer; the bound it gives.
IsBound(t) == t = Empty \/ AtoiOk(t)

BoundOf(t) == IF t = Empty THEN NilBound ELSE IntBound(AtoiVal(t))

\* C20: parse_token on a bracket interior containing `:` (and no `?`) treats
\* each side independently: a blank side gives an unspecified bound, an
\* integer side gives that integer, and if either side is non-blank and not an
\* integer, or the interior has more than one `:`, a format error is
\* returned.
C20_RangeToken ==
  (pc = "done" /\ Colons(call.interior) # {}
     /\ \A k \in 1..Len(call.interior) : call.interior[k] # "?") =>
    IF Cardinality(Colons(call.interior)) > 1 THEN out.err
    ELSE IF ~IsBound(FromSide(call.interior)) \/ ~IsBound(ToSide(call.interior)) THEN out.err
    ELSE
      /\ ~out.err
      /\ out.op = "range"
      /\ out.key = call.key
      /\ out.args.frm = BoundOf(FromSide(call.interior))
      /\ out.args.to = BoundOf(ToSide(call.interior))

(***************************************************************************)
(* C21-C23: one bracket after the root, closed or not                      *)
(***************************************************************************)

\* The largest number of characters between the brackets.
MaxContent == 3

ContentChars == {"'", "a", "1", ",", "-", "#", " "}

Contents == UNION {[1..n -> ContentChars] : n \in 0..MaxContent}

\* The path `$[content]` or `$.key[content]`, with or without the closing `]`.
BracketPath(c) ==
  (<<"$">> \o (IF c.key = Empty THEN Empty ELSE <<".">> \o c.key))
    \o ((<<"[">> \o c.content) \o (IF c.closed THEN <<"]">> ELSE Empty))

BracketRoots == {Obj(<<KV(KeyA, Arr(<<N1, N2>>))>>), Arr(<<N1, N2>>)}

InitBracket ==
  /\ call \in {[fn |-> "bracket", key |-> k, content |-> t, closed |-> b] :
                 k \in {Empty, KeyA}, t \in Contents, b \in BOOLEAN}
  /\ jpath = BracketPath(call)
  /\ root \in BracketRoots
  /\ pc = "start"
  /\ steps = << >>
  /\ pos = 0
  /\ obj = NilV
  /\ out = None

NextBracket == DoCompile \/ StepKey \/ StepIdx \/ Return

SpecBracket == InitBracket /\ [][NextBracket]_vars

\* The characters the claim allows between the brackets.
AllowedChar(v) ==
  \/ (Ord(v) >= Ord("0") /\ Ord(v) <= Ord("9"))
  \/ (Ord(v) >= Ord("a") /\ Ord(v) <= Ord("z"))
  \/ (Ord(v) >= Ord("A") /\ Ord(v) <= Ord("Z"))
  \/ v \in {",", "@", "$", ".", "'", "=", "!", "<", ">", "~", "&", "|"}

\* C21: a bracket content holding a character outside letters, digits, comma,
\* `@`, `$`, `.`, the quote and the operator characters is a format error: the
\* path is never compiled into a key-list, index-list or filter step.
C21_InvalidCharError ==
  (pc # "start" /\ \E k \in 1..Len(call.content) : ~AllowedChar(call.content[k])) =>
    out = Err("compile")

\* C22: after a successful compilation every index step carries at least one
\* integer and every key step with a bracket carries at least one name, so
\* Lookup never takes its empty-key-slice or empty-index-slice branch; the
\* empty bracket `[]` is a compile error.
C22_NonEmptyLists ==
  /\ \A i \in 1..Len(steps) :
       /\ steps[i].op = "idx" => (steps[i].args.kind = "ints" /\ Len(steps[i].args.ints) >= 1)
       /\ (steps[i].op = "key" /\ steps[i].args.kind # "nil") =>
            (steps[i].args.kind = "strs" /\ Len(steps[i].args.strs) >= 1)
  /\ out.e \notin {"emptykeys", "emptyidx"}
  /\ (pc # "start" /\ call.closed /\ call.content = Empty) => out = Err("compile")

\* An index list of two integers was compiled and looked up.
C22_Witness ==
  /\ pc = "done"
  /\ out.k = "ok"
  /\ Len(steps) = 1
  /\ steps[1].op = "idx"
  /\ Len(steps[1].args.ints) = 2

\* C23: a path whose `[` is never closed by a `]` is a compile error.
C23_UnclosedError ==
  (pc # "start" /\ ~call.closed) => out = Err("compile")

(***************************************************************************)
(* C24: parse_filter on texts of space-separated fields                    *)
(***************************************************************************)

\* The largest number of fields of a filter text.
MaxFields == 4

\* A field is a text, written between single quotes or bare.
TextField(t, q) == [text |-> t, quoted |-> q]

OperandFields ==
  { TextField(<<"a">>, FALSE), TextField(<<"1">>, FALSE),
    TextField(<<"a">>, TRUE), TextField(<<"a", " ", "b">>, TRUE) }

OperatorFields == {TextField(<<"=", "=">>, FALSE), TextField(<<"<">>, FALSE)}

\* Field lists: an operand, then an operator, then operands.
FieldLists ==
  UNION {{f \in [1..n -> OperandFields \cup OperatorFields] :
            \A i \in 1..n : IF i = 2 THEN f[i] \in OperatorFields ELSE f[i] \in OperandFields} :
         n \in 1..MaxFields}

FieldText(f) == IF f.quoted THEN (<<"'">> \o f.text) \o <<"'">> ELSE f.text

\* The fields written one after the other with one space between them.
RECURSIVE FilterText(_)
FilterText(fs) ==
  IF Len(fs) = 1 THEN FieldText(fs[1])
  ELSE (FieldText(fs[1]) \o <<" ">>) \o FilterText(Tail(fs))

InitFields ==
  /\ call \in {[fn |-> "parse_filter", fields |-> f] : f \in FieldLists}
  /\ jpath = FilterText(call.fields)
  /\ root = NilV
  /\ pc = "start"
  /\ steps = << >>
  /\ pos = 0
  /\ obj = NilV
  /\ out = None

\* What parse_filter returns, r the state its loop ends in.
FilterParsed(r) == [lp |-> r.lp, op |-> r.op, rp |-> r.rp, err |-> r.err]

\* One call parse_filter(filter).
DoParseFilter ==
  /\ pc = "start"
  /\ call.fn = "parse_filter"
  /\ out' = FilterParsed(parse_filter(jpath))
  /\ pc' = "done"
  /\ UNCHANGED <<jpath, root, steps, pos, obj, call>>

NextFields == DoParseFilter

SpecFields == InitFields /\ [][NextFields]_vars

\* C24: parse_filter on `L OP R` returns (L, OP, R) with the quotes of a
\* quoted L or R removed; on one bare field F it returns (F, exists, empty);
\* on more than three fields it returns a format error.
C24_ParseFilter ==
  pc = "done" =>
    IF Len(call.fields) = 1 THEN
      call.fields[1].quoted \/
        out = [lp |-> call.fields[1].text, op |-> OpExists, rp |-> Empty, err |-> FALSE]
    ELSE IF Len(call.fields) = 3 THEN
      out = [lp |-> call.fields[1].text, op |-> call.fields[2].text,
             rp |-> call.fields[3].text, err |-> FALSE]
    ELSE IF Len(call.fields) > 3 THEN out.err
    ELSE TRUE

(***************************************************************************)
(* C25: eval_filter with the operator `exists`                             *)
(***************************************************************************)

\* The largest number of steps after the `@` or `$` of a left operand.
MaxLeft == 2

LeftSteps == {<<"a">>, <<"b">>, <<"a", "[", "0", "]">>, <<"b", "[", "0", "]">>, <<"*">>}

\* The text `head.step.step`.
RECURSIVE LeftText(_, _)
LeftText(head, ss) ==
  IF Len(ss) = 0 THEN head ELSE LeftText((head \o <<".">>) \o ss[1], Tail(ss))

\* Left operands: paths from the candidate, paths from the root, literals.
Lefts ==
  {LeftText(h, ss) : h \in {<<"@">>, <<"$">>},
                     ss \in UNION {[1..n -> LeftSteps] : n \in 1..MaxLeft}}
    \cup {<<"a">>, <<"1">>, <<"@">>}

\* Candidates: what get_filtered hands to the predicate, the absent element
\* of a broadcast included.
LeftCandidates ==
  { Obj(<<KV(KeyA, N1)>>),
    Obj(<<KV(KeyA, Arr(<<N1>>)), KV(KeyB, Null)>>),
    Obj(<<KV(KeyA, Obj(<<KV(KeyB, SX)>>))>>),
    Arr(<<Obj(<<KV(KeyA, N1)>>)>>),
    N1,
    NilV }

LeftRoots == {Obj(<<KV(KeyB, Arr(<<SX>>))>>), Arr(<<Obj(<<KV(KeyB, N1)>>)>>)}

InitLeft ==
  /\ call \in {[fn |-> "eval_filter", obj |-> c, lp |-> l] : c \in LeftCandidates, l \in Lefts}
  /\ jpath = call.lp
  /\ root \in LeftRoots
  /\ pc = "start"
  /\ steps = << >>
  /\ pos = 0
  /\ obj = NilV
  /\ out = None

\* One call eval_filter(obj, root, lp, "exists", "").
DoEvalFilter ==
  /\ pc = "start"
  /\ call.fn = "eval_filter"
  /\ out' = eval_filter(call.obj, root, jpath, OpExists, Empty)
  /\ pc' = "done"
  /\ UNCHANGED <<jpath, root, steps, pos, obj, call>>

NextLeft == DoEvalFilter

SpecLeft == InitLeft /\ [][NextLeft]_vars

\* The left operand resolves without error: an `@.` path against the
\* candidate, a `$.` path against the root, any other text as a literal.
Resolves(c, rt, lp) ==
  IF HasPrefix(lp, <<"@", ".">>) THEN filter_get_from_explicit_path(c, lp).k = "ok"
  ELSE IF HasPrefix(lp, <<"$", ".">>) THEN filter_get_from_explicit_path(rt, lp).k = "ok"
  ELSE TRUE

\* The value a left operand that resolves without error resolves to.
Resolved(c, rt, lp) ==
  IF HasPrefix(lp, <<"@", ".">>) THEN filter_get_from_explicit_path(c, lp).v
  ELSE IF HasPrefix(lp, <<"$", ".">>) THEN filter_get_from_explicit_path(rt, lp).v
  ELSE Str(lp)

\* C25 as stated: for the operator `exists`, eval_filter returns true without
\* error exactly when the left operand resolves without error, and false
\* without error when the resolution fails.
C25_ExistsOp ==
  pc = "done" => out = BOk(Resolves(call.obj, root, call.lp))

\* C25 amended: for the operator `exists`, eval_filter never fails; it returns
\* true exactly when the left operand resolves without error to a value that
\* is present, and false when the resolution fails or gives the absent (nil)
\* value, as the index into a broadcast over elements that lack the key does.
C25_ExistsPresent ==
  pc = "done" =>
    out = BOk(Resolves(call.obj, root, call.lp) /\ Resolved(call.obj, root, call.lp) # NilV)

\* A left operand resolved without error to the absent value, and `exists`
\* returned false.
C25_Witness ==
  /\ pc = "done"
  /\ Resolves(call.obj, root, call.lp)
  /\ Resolved(call.obj, root, call.lp) = NilV
  /\ out = BOk(FALSE)

(***************************************************************************)
(* C26: a filter step on a value that is not an array                      *)
(***************************************************************************)

\* The values under the key "a" of the root: objects, scalars and null.
Singles ==
  { Obj(<<KV(KeyA, N1), KV(KeyB, SX)>>),
    Obj(<<KV(KeyA, N2)>>),
    Obj(<<KV(KeyB, Arr(<<N1>>))>>),
    N1,
    SX,
    Null }

\* The steps after the filter: none, a key, an index.
SingleTails == {Empty, <<".", "b">>, <<"[", "0", "]">>}

\* The predicates: `lp` alone (exists) and `lp op rp`.
SingleCalls ==
  {[fn |-> "single", lp |-> l, op |-> o, rp |-> r, tail |-> t] :
     l \in {<<"@", ".", "a">>, <<"@", ".", "b">>, <<"1">>},
     o \in {<<"=", "=">>, <<"<">>}, r \in {<<"1">>, <<"x">>}, t \in SingleTails}
    \cup {[fn |-> "single", lp |-> l, op |-> OpExists, rp |-> Empty, tail |-> t] :
            l \in {<<"@", ".", "a">>, <<"@", ".", "b">>, <<"1">>}, t \in SingleTails}

\* The text `$.a[?(lp op rp)]tail` or `$.a[?(lp)]tail`.
SinglePath(c) ==
  (((<<"$", ".", "a", "[", "?", "(">> \o c.lp)
      \o (IF c.op = OpExists THEN Empty ELSE ((<<" ">> \o c.op) \o <<" ">>) \o c.rp))
     \o <<")", "]">>)
    \o c.tail

InitSingle ==
  /\ call \in SingleCalls
  /\ jpath = SinglePath(call)
  /\ root \in {Obj(<<KV(KeyA, v)>>) : v \in Singles}
  /\ pc = "start"
  /\ steps = << >>
  /\ pos = 0
  /\ obj = NilV
  /\ out = None

NextSingle == DoCompile \/ StepFilter \/ StepKey \/ StepIdx \/ Return

SpecSingle == InitSingle /\ [][NextSingle]_vars

\* The value the filter step is applied to, and the predicate on it.
Single == root.o[1].v

HoldsOn(v) == eval_filter(v, root, call.lp, call.op, call.rp)

\* The remaining steps applied to the value v.
Remaining(v) == JsonPathLookup(v, <<"$">> \o call.tail)

\* C26 as stated: a filter step applied to a single (non-array) value keeps
\* the value when the predicate holds, the remaining steps being applied to
\* it, and makes Lookup return no value and no error when the predicate does
\* not hold, whatever steps remain.
C26_SingleValue ==
  (pc = "done" /\ Single.t # "array") =>
    /\ HoldsOn(Single) = BOk(TRUE) => out = Remaining(Single)
    /\ HoldsOn(Single) = BOk(FALSE) => out = Ok(NilV)

\* C26 amended: the same for a single object; on a value that is neither an
\* array nor an object (a number, a string, null) the filter step is an error
\* whatever the predicate.
C26_SingleObject ==
  pc = "done" =>
    /\ (Single.t = "object" /\ HoldsOn(Single) = BOk(TRUE)) => out = Remaining(Single)
    /\ (Single.t = "object" /\ HoldsOn(Single) = BOk(FALSE)) => out = Ok(NilV)
    /\ Single.t \notin {"object", "array"} => out = Err("filter")

\* The predicate did not hold on an object and Lookup returned no value and
\* no error although a step remained.
C26_Witness ==
  /\ pc = "done"
  /\ Single.t = "object"
  /\ HoldsOn(Single) = BOk(FALSE)
  /\ call.tail # Empty
  /\ out = Ok(NilV)

(***************************************************************************)
(* C27: a comparison whose operand path does not resolve                   *)
(***************************************************************************)

\* Operands of the comparison: paths from the candidate and from the root,
\* and literals.
ResolveLefts == {<<"@", ".", "a">>, <<"@", ".", "b">>, <<"1">>}

ResolveRights == {<<"1">>, <<"x">>, <<"@", ".", "b">>, <<"$", ".", "b">>}

ResolveCalls ==
  {[fn |-> "resolve", lp |-> l, op |-> o, rp |-> r] :
     l \in ResolveLefts, o \in CmpOps, r \in ResolveRights}

\* The text `$.a[?(lp op rp)]`.
ResolvePath(c) ==
  ((<<"$", ".", "a", "[", "?", "(">> \o c.lp) \o ((<<" ">> \o c.op) \o <<" ">>))
    \o (c.rp \o <<")", "]">>)

InitResolve ==
  /\ call \in ResolveCalls
  /\ jpath = ResolvePath(call)
  /\ root \in FilterRoots
  /\ pc = "start"
  /\ steps = << >>
  /\ pos = 0
  /\ obj = NilV
  /\ out = None

NextResolve == DoCompile \/ StepFilter \/ Return

SpecResolve == InitResolve /\ [][NextResolve]_vars

\* An operand path of the call does not resolve against the candidate e.
Unresolved(e) ==
  \/ get_lp_v(e, root, call.lp).k = "err"
  \/ get_lp_v(e, root, call.rp).k = "err"

\* C27: when the left or the right operand path of a comparison filter does
\* not resolve against some candidate of the array, Lookup returns an error
\* for the step.
C27_ResolutionError ==
  (pc = "done" /\ \E i \in 1..Len(root.o[1].v.a) : Unresolved(root.o[1].v.a[i])) =>
    out.k = "err"

====
